---- MODULE Spec2Model ----
(***************************************************************************)
(* Model of the ingestion pipeline (etl/pipeline/etl_pipeline.py), its     *)
(* checkpoint file, the cached resource (etl/resources/cached.py), the     *)
(* HTTP resource (etl/resources/http.py), the catalogue client             *)
(* (etl/client/__init__.py), the dataset repository                        *)
(* (etl/repository/dataset_repository.py), hybrid and advanced search      *)
(* (etl/search/hybrid.py, etl/search/advanced.py) and the access filter    *)
(* (etl/guardrails/filters.py).                                            *)
(*                                                                         *)
(* A ProcessedDataset object is identified by its dataset_id; the lists    *)
(* result.successful, result.failed and batch hold references to these    *)
(* objects, so they are sequences of ids and obj[id] is the object state.  *)
(* The catalogue serves under /id/{uuid} the record whose identifier is    *)
(* uuid, so metadata.identifier = dataset_id; input id lists are distinct. *)
(***************************************************************************)
EXTENDS Integers, Sequences, FiniteSets, TLC

\* ---------------------------------------------------------------- bounds
IDs == {"x", "y", "z"}
MaxIds == 3
MaxBatch == 2
MaxRuns == 2
MaxTime == 3
MaxTTL == 1
MaxRetries == 3
MaxConcurrency == 2
MaxDelay == 1
MaxWall == 3
MaxEntities == 2
MaxResults == 2
MaxLimit == 3
MaxDatasets == 3
Bodies == {1, 2}
Callers == {1, 2}

\* ------------------------------------------------------------- variables
VARIABLES
    resumable,          \* TRUE: ResumableETLPipeline, FALSE: ETLPipeline
    stop_on_error,      \* PipelineConfig.stop_on_error
    batch_size,         \* PipelineConfig.batch_size
    pc,                 \* position of the run coroutine
    runs,               \* number of run() calls started
    input,              \* dataset_ids argument of the outer run()
    dataset_ids,        \* dataset_ids of ETLPipeline.run (remaining for resumable)
    fetch_map,          \* ids whose fetch succeeded (keys of fetch_map)
    i,                  \* loop index of "for i, dataset_id in enumerate(dataset_ids)"
    obj,                \* ProcessedDataset objects by dataset_id
    successful,         \* result.successful (ids, in list order)
    failed,             \* result.failed (ids, in list order)
    batch,              \* pending batch (ids, in list order)
    batches_committed,  \* result.batches_committed
    saveCalls,          \* log of repository.save_many calls (entities of each call)
    fetchCalls,         \* log of client.fetch_all calls (ids of each call)
    storeFailed,        \* ids reported in bulk_result.failed during this run
    cpBefore,           \* checkpoint (memory) at the start of the current run
    fileBefore,         \* checkpoint file at the start of the current run
    checkpoint,         \* self.checkpoint: [processed_ids, failed_ids]
    file,               \* content of the file at checkpoint_path
    loaded,             \* outcome of Checkpoint.load at the last construction after a crash
    events              \* log of the ProgressUpdates given to the progress_callback
                        \* of the current run

pipeVars == <<resumable, stop_on_error, batch_size, pc, runs, input, dataset_ids,
              fetch_map, i, obj, successful, failed, batch, batches_committed,
              saveCalls, fetchCalls, storeFailed, cpBefore, fileBefore,
              checkpoint, file, loaded, events>>

\* cached resource (one identifier, one cache entry)
VARIABLES
    ttl,                \* CachedResource._ttl in clock ticks, NoTTL for None
    clock,              \* datetime.utcnow()
    srcBody,            \* body the wrapped resource currently serves
    contentFile,        \* the <key>.content file
    metaFile,           \* the <key>.meta file
    cpc,                \* position of each caller inside its call
    op,                 \* the call each caller is in
    res,                \* FetchResult being built / last returned, per caller
    lastStored,         \* cached_at of the last completed cache write since
                        \* the entry was last invalidated, NoTime if none
    lastFetched,        \* body of the last successful fetch of the wrapped
                        \* resource, 0 if none
    by,                 \* the caller whose write each file comes from, 0 if none
    wrote               \* the files each caller has written during its call

cacheVars == <<ttl, clock, srcBody, contentFile, metaFile, cpc, op, res, lastStored,
               lastFetched, by, wrote>>

\* HTTP resource (one fetch() call)
VARIABLES
    max_retries,        \* HttpResource._max_retries
    retry_delay,        \* HttpResource._retry_delay, in seconds
    hpc,                \* position inside HttpResource._do_fetch
    attempt,            \* loop variable of "for attempt in range(self._max_retries)"
    outcomes,           \* log of the outcomes of the _single_fetch calls
    delays,             \* log of the backoff sleeps, in units of retry_delay
    hres                \* the FetchResult returned

httpVars == <<max_retries, retry_delay, hpc, attempt, outcomes, delays, hres>>

\* catalogue client (one fetch_all or stream_datasets operation)
VARIABLES
    concurrency,        \* CEHCatalogueClient._concurrency
    request_delay,      \* CEHCatalogueClient._request_delay, in ticks of wall
    mode,               \* "fetch_all" or "stream", "none" before the call
    requested,          \* the dataset_ids argument
    formats,            \* the formats argument
    progress_callback,  \* TRUE when the operation has a progress_callback
                        \* (fetch_all called with one; the stream has none)
    cpos,               \* position of fetch_all / of the _stream_fetch generator
    tpc,                \* position of the task of each id
    sem,                \* value of self._semaphore
    waiters,            \* tasks blocked in self._semaphore.acquire(), in order
    wall,               \* wall time
    wake,               \* end of asyncio.sleep(self._request_delay), per task
    acquiredAt,         \* log of the times at which the semaphore was acquired
    tres,               \* DatasetFetchResult of each task
    progress,           \* log of the ProgressUpdates given to progress_callback
    batch_successful,   \* BatchFetchResult.successful (ids, in list order)
    batch_failed,       \* BatchFetchResult.failed (ids, in list order)
    pending,            \* keys of the pending dict of _stream_fetch
    done,               \* rest of the done set being iterated by _stream_fetch
    yielded             \* log of the results yielded by the stream (ids)

clientVars == <<concurrency, request_delay, mode, requested, formats,
                progress_callback, cpos, tpc, sem, waiters, wall, wake, acquiredAt,
                tres, progress, batch_successful, batch_failed, pending, done,
                yielded>>

VARIABLES
    db,                 \* committed rows of the datasets table, by identifier
    session_rows,       \* the open session's view: db plus flushed, uncommitted changes
    rpc,                \* position of save_many: "idle", "loop", "returned"
    entities,           \* entities argument of save_many
    rpos,               \* index of the entity the loop of save_many is at
    bulk_succeeded,     \* BulkOperationResult.succeeded
    bulk_failed,        \* identifiers of BulkOperationResult.failed
    db0,                \* ghost: db when save_many was called
    last_saved          \* ghost: by identifier, the data passed to the latest save

repoVars == <<db, session_rows, rpc, entities, rpos, bulk_succeeded, bulk_failed,
              db0, last_saved>>

VARIABLES
    semantic_weight,    \* HybridSearchService.semantic_weight, in halves
    keyword_weight,     \* HybridSearchService.keyword_weight, in halves
    spc,                \* position of search: "idle", "searched", "merged", "boosted", "returned"
    query,              \* the stripped query
    limit,              \* limit argument of search
    query_type,         \* result of _detect_query_type
    semantic_w,         \* weight passed to _merge_rrf for semantic results, in halves
    keyword_w,          \* weight passed to _merge_rrf for keyword results, in halves
    semantic_results,   \* what vector_store.search returned (dataset ids in rank order)
    keyword_results,    \* what repository.search returned (dataset ids in rank order)
    merged,             \* list returned by _merge_rrf
    boosted,            \* list returned by _boost_exact_matches
    results,            \* HybridSearchResponse.results
    vector_calls,       \* calls of vector_store.search made by this search
    get_calls,          \* calls of repository.get made by this search
    search_calls        \* calls of repository.search made by this search

searchVars == <<semantic_weight, keyword_weight, spc, query, limit, query_type,
                semantic_w, keyword_w, semantic_results, keyword_results, merged,
                boosted, results, vector_calls, get_calls, search_calls>>

VARIABLES
    use_reranker,       \* AdvancedSearchPipeline.use_reranker
    model_loadable,     \* whether CrossEncoder(model_name) can be constructed
    apc,                \* position of AdvancedSearchPipeline.search: "idle", "rescored", "returned"
    hybrid_results,     \* hybrid_results argument of AdvancedSearchPipeline.search
    expanded,           \* QueryAnalysis.expanded
    adv_results,        \* AdvancedSearchResult.results
    reranked            \* AdvancedSearchResult.reranked

advVars == <<use_reranker, model_loadable, apc, hybrid_results, expanded, adv_results,
             reranked>>

VARIABLES
    fpc,                \* position of filter_datasets_by_access: "idle", "returned"
    datasets,           \* datasets argument: list of dataset dicts
    user_role,          \* user_role argument ("None" stands for None)
    visible             \* the list returned

filterVars == <<fpc, datasets, user_role, visible>>

VARIABLES
    bpc,                \* position of search_datasets: "idle", "responded"
    search_mode,        \* the branch search_datasets took: "hybrid", "semantic", "keyword"
    current_role,       \* user_role of search_datasets ("None" stands for None)
    response_results,   \* SearchResponse.results
    response_total      \* SearchResponse.total

apiVars == <<bpc, search_mode, current_role, response_results, response_total>>

VARIABLES
    xpc,                \* position of build_context: "idle", "returned"
    retrieved_docs,     \* retrieved_docs argument of build_context
    max_chars,          \* max_chars argument of build_context
    context             \* the string build_context returned

ctxVars == <<xpc, retrieved_docs, max_chars, context>>

VARIABLES
    gpc,                \* position of RAGPipeline.query: "idle", "classified", "retrieved", "answered"
    question,           \* question argument
    rag_role,           \* user_role argument ("None" stands for None)
    rag_retrieved,      \* retrieved: what retrieve returned, then what the filter kept
    rag_context,        \* context passed to the generator
    rag_context_ids,    \* ghost: ids of the documents whose blocks are in rag_context
    rag_sources         \* ids of the "sources" of the returned dict

ragVars == <<gpc, question, rag_role, rag_retrieved, rag_context, rag_context_ids,
             rag_sources>>

VARIABLES
    default_instance,   \* by accessor, the module global (_default_factory, ...); 0 is None
    constructed,        \* ghost: by accessor, how many instances have been constructed
    spos,               \* by thread, its position in the accessor
    accessor,           \* by thread, the accessor it is calling
    made,               \* by thread, the instance it constructed and has not assigned yet
    got                 \* by thread, the instance the accessor returned; 0 before that

singleVars == <<default_instance, constructed, spos, accessor, made, got>>

VARIABLES
    ocall,              \* by operation, the position of fetch_all / _stream_fetch
    ntasks,             \* by operation, the number of ids it was given
    otask,              \* by operation and index, the position of that task
    semaphores,         \* values of the Semaphore objects created so far
    semaphore_waiters,  \* by Semaphore object, the tasks blocked in acquire, in order
    client_semaphore,   \* self._semaphore: index of its Semaphore object; 0 is None
    task_semaphore      \* by operation and index, the Semaphore object the task entered

multiVars == <<ocall, ntasks, otask, semaphores, semaphore_waiters, client_semaphore,
               task_semaphore>>

nonPipeVars == <<cacheVars, httpVars, clientVars, repoVars, searchVars, advVars, filterVars, apiVars, ctxVars, ragVars, singleVars, multiVars>>
nonCacheVars == <<pipeVars, httpVars, clientVars, repoVars, searchVars, advVars, filterVars, apiVars, ctxVars, ragVars, singleVars, multiVars>>
nonHttpVars == <<pipeVars, cacheVars, clientVars, repoVars, searchVars, advVars, filterVars, apiVars, ctxVars, ragVars, singleVars, multiVars>>
nonClientVars == <<pipeVars, cacheVars, httpVars, repoVars, searchVars, advVars, filterVars, apiVars, ctxVars, ragVars, singleVars, multiVars>>

nonRepoVars == <<pipeVars, cacheVars, httpVars, clientVars, searchVars, advVars, filterVars, apiVars, ctxVars, ragVars, singleVars, multiVars>>

nonSearchVars == <<pipeVars, cacheVars, httpVars, clientVars, repoVars, advVars, filterVars, apiVars, ctxVars, ragVars, singleVars, multiVars>>

nonAdvVars == <<pipeVars, cacheVars, httpVars, clientVars, repoVars, searchVars, filterVars, apiVars, ctxVars, ragVars, singleVars, multiVars>>

nonFilterVars == <<pipeVars, cacheVars, httpVars, clientVars, repoVars, searchVars, advVars, apiVars, ctxVars, ragVars, singleVars, multiVars>>

nonApiVars == <<pipeVars, cacheVars, httpVars, clientVars, repoVars, searchVars, advVars, filterVars, ctxVars, ragVars, singleVars, multiVars>>

nonCtxVars == <<pipeVars, cacheVars, httpVars, clientVars, repoVars, searchVars, advVars, filterVars, apiVars, ragVars, singleVars, multiVars>>

nonRagVars == <<pipeVars, cacheVars, httpVars, clientVars, repoVars, searchVars, advVars, filterVars, apiVars, ctxVars, singleVars, multiVars>>

nonSingleVars == <<pipeVars, cacheVars, httpVars, clientVars, repoVars, searchVars, advVars, filterVars, apiVars, ctxVars, ragVars, multiVars>>

nonMultiVars == <<pipeVars, cacheVars, httpVars, clientVars, repoVars, searchVars, advVars, filterVars, apiVars, ctxVars, ragVars, singleVars>>

vars == <<pipeVars, cacheVars, httpVars, clientVars, repoVars, searchVars, advVars, filterVars, apiVars, ctxVars, ragVars, singleVars, multiVars>>

\* ----------------------------------------------------------- data model
FETCH == "fetch"
PARSE == "parse"
STORE == "store"
COMPLETE == "complete"
PipelineStage == {FETCH, PARSE, STORE, COMPLETE}

NoObj == [success |-> FALSE, stage_completed |-> "none",
          error_stage |-> "none", error_message |-> "none"]

EmptyCheckpoint == [processed_ids |-> {}, failed_ids |-> {}]

\* file content: absent, partial (truncated or partly written JSON), or a
\* complete JSON document
AbsentFile == [state |-> "absent", processed_ids |-> {}, failed_ids |-> {}]
PartialFile == [state |-> "partial", processed_ids |-> {}, failed_ids |-> {}]
Doc(cp) == [state |-> "complete", processed_ids |-> cp.processed_ids,
            failed_ids |-> cp.failed_ids]

Range(s) == {s[k] : k \in 1..Len(s)}

DistinctSeqs == {s \in UNION {[1..n -> IDs] : n \in 0..MaxIds} :
                    \A a, b \in 1..Len(s) : a # b => s[a] # s[b]}

\* PipelineResult properties
total == Len(successful) + Len(failed)
success_count == Len(successful)
failure_count == Len(failed)

\* success_rate as the fraction <<numerator, denominator>>; 0.0 when total = 0
success_rate == IF total > 0 THEN <<success_count, total>> ELSE <<0, 1>>

\* failures_by_stage(): count of failed entries per error_stage value
failures_by_stage ==
    LET stages == {obj[failed[k]].error_stage : k \in 1..Len(failed)}
    IN [s \in stages |-> Cardinality({k \in 1..Len(failed) : obj[failed[k]].error_stage = s})]

remaining_unprocessed(cp, all_ids) ==
    SelectSeq(all_ids, LAMBDA id : id \notin cp.processed_ids)

\* Checkpoint.remaining
remaining(cp, all_ids) ==
    SelectSeq(all_ids, LAMBDA id : id \notin cp.processed_ids /\ id \notin cp.failed_ids)

\* ----------------------------------------------------------------- Init
InitPipe ==
    /\ resumable \in BOOLEAN
    /\ stop_on_error \in BOOLEAN
    /\ batch_size \in 1..MaxBatch
    /\ pc = "idle"
    /\ runs = 0
    /\ input = <<>>
    /\ dataset_ids = <<>>
    /\ fetch_map = {}
    /\ i = 0
    /\ obj = [id \in IDs |-> NoObj]
    /\ successful = <<>>
    /\ failed = <<>>
    /\ batch = <<>>
    /\ batches_committed = 0
    /\ saveCalls = <<>>
    /\ fetchCalls = <<>>
    /\ storeFailed = {}
    /\ cpBefore = EmptyCheckpoint
    /\ fileBefore = AbsentFile
    /\ checkpoint = EmptyCheckpoint
    /\ file = AbsentFile
    /\ loaded = "none"
    /\ events = <<>>

\* ------------------------------------------------- ETLPipeline helpers
\* pipeline ProgressUpdate (lines 190-199): dataset_id, stage and success;
\* it has no status field
ProgressUpdate(id, stage, success) ==
    [dataset_id |-> id, stage |-> stage, success |-> success]

\* run, lines 259-267: one update per fetch failure, in the order of
\* fetch_results.failed; client.fetch_all itself is called without a
\* progress_callback (lines 237-240), so the client reports nothing
FetchFailureUpdates(fs) == [k \in 1..Len(fs) |-> ProgressUpdate(fs[k], FETCH, FALSE)]

\* run, lines 285-294: the update after a dataset has been processed
ProgressOf(id, processed) == ProgressUpdate(id, processed.stage_completed, processed.success)

FetchFailure_unstaged == [success |-> FALSE, stage_completed |-> FETCH,
                          error_stage |-> "none", error_message |-> "fetch_error"]

\* ProcessedDataset built for a fetch failure (run, lines 248-257)
FetchFailure == [success |-> FALSE, stage_completed |-> FETCH,
                 error_stage |-> FETCH, error_message |-> "fetch_error"]

\* _process_dataset: the ProcessedDataset returned for a fetched dataset
\* whose parse succeeds (ok) or raises
_process_dataset(ok) ==
    IF ok
    THEN [success |-> TRUE, stage_completed |-> PARSE,
          error_stage |-> "none", error_message |-> "none"]
    ELSE [success |-> FALSE, stage_completed |-> FETCH,
          error_stage |-> PARSE, error_message |-> "parse_error"]

\* _commit_batch: the list "stored" returned for batch b when save_many
\* reports the ids of SF as failed and the others as succeeded
Stored(b, SF) == SelectSeq(b, LAMBDA id : id \notin SF)

\* _commit_batch: the ProcessedDataset objects after the call
CommitObjs(o, b, SF) ==
    [id \in IDs |->
        IF id \in Range(b) /\ id \notin SF
        THEN [o[id] EXCEPT !.stage_completed = STORE]
        ELSE IF id \in Range(b) /\ id \in SF
        THEN [o[id] EXCEPT !.success = FALSE, !.error_stage = STORE,
                           !.error_message = "store_error"]
        ELSE o[id]]

BreakAlways == TRUE

\* run, line 282: "if self.config.stop_on_error: break" after a parse failure
BreakOnParseFailure == stop_on_error

\* variant: the batch is committed only when it exceeds batch_size
BatchFull_exceeds(b) == Len(b) > batch_size

\* run, line 297: "if len(batch) >= self.config.batch_size"
BatchFull(b) == Len(b) >= batch_size

\* ---------------------------------------------------------------- actions
\* run() is called with a list of distinct ids (ResumableETLPipeline.run
\* lines 503-506 when resumable, ETLPipeline.run lines 231-234 otherwise)
RunStart ==
    /\ pc \in {"idle", "done", "raised", "cancelled"}
    /\ runs < MaxRuns
    /\ \E ids \in DistinctSeqs :
        /\ input' = ids
        /\ dataset_ids' = IF resumable THEN remaining(checkpoint, ids) ELSE ids
        /\ pc' = IF resumable /\ remaining(checkpoint, ids) = <<>> THEN "done" ELSE "fetch"
    /\ runs' = runs + 1
    /\ fetch_map' = {}
    /\ i' = 0
    /\ obj' = [id \in IDs |-> NoObj]
    /\ successful' = <<>>
    /\ failed' = <<>>
    /\ batch' = <<>>
    /\ batches_committed' = 0
    /\ saveCalls' = <<>>
    /\ fetchCalls' = <<>>
    /\ storeFailed' = {}
    /\ cpBefore' = checkpoint
    /\ fileBefore' = file
    /\ UNCHANGED <<nonPipeVars, resumable, stop_on_error, batch_size, checkpoint, file, loaded>>
    /\ events' = <<>>

\* client.fetch_all returns; fetch failures are added to result.failed in
\* input order (run, lines 237-267)
FetchAll ==
    /\ pc = "fetch"
    /\ \E F \in SUBSET Range(dataset_ids) :
        /\ fetch_map' = Range(dataset_ids) \ F
        /\ failed' = SelectSeq(dataset_ids, LAMBDA id : id \in F)
        /\ obj' = [id \in IDs |-> IF id \in F THEN FetchFailure ELSE obj[id]]
    /\ fetchCalls' = Append(fetchCalls, dataset_ids)
    /\ i' = 1
    /\ pc' = IF Len(dataset_ids) = 0 THEN "flush" ELSE "loop"
    /\ UNCHANGED <<nonPipeVars, resumable, stop_on_error, batch_size, runs, input, dataset_ids,
                   successful, batch, batches_committed, saveCalls, storeFailed,
                   cpBefore, fileBefore, checkpoint, file, loaded>>
    /\ events' = events \o FetchFailureUpdates(failed')

AfterIteration == IF i + 1 > Len(dataset_ids) THEN "flush" ELSE "loop"

\* loop iteration for an id that is not in fetch_map (run, lines 271-272)
SkipUnfetched ==
    /\ pc = "loop"
    /\ dataset_ids[i] \notin fetch_map
    /\ i' = i + 1
    /\ pc' = AfterIteration
    /\ UNCHANGED <<nonPipeVars, events, resumable, stop_on_error, batch_size, runs, input, dataset_ids,
                   fetch_map, obj, successful, failed, batch, batches_committed,
                   saveCalls, fetchCalls, storeFailed, cpBefore, fileBefore,
                   checkpoint, file, loaded>>

\* loop iteration whose parse raises (run, lines 274-283 and 296-301)
ParseFail ==
    /\ pc = "loop"
    /\ dataset_ids[i] \in fetch_map
    /\ obj' = [obj EXCEPT ![dataset_ids[i]] = _process_dataset(FALSE)]
    /\ failed' = Append(failed, dataset_ids[i])
    /\ i' = i + 1
    /\ pc' = IF BreakOnParseFailure THEN "flush" ELSE AfterIteration
    /\ UNCHANGED <<nonPipeVars, resumable, stop_on_error, batch_size, runs, input, dataset_ids,
                   fetch_map, successful, batch, batches_committed, saveCalls,
                   fetchCalls, storeFailed, cpBefore, fileBefore, checkpoint,
                   file, loaded>>
    /\ events' = IF BreakOnParseFailure THEN events
                 ELSE Append(events, ProgressOf(dataset_ids[i], obj'[dataset_ids[i]]))

\* loop iteration whose parse succeeds: the dataset joins the batch
\* (run, lines 274-278 and 297)
ParseOk ==
    /\ pc = "loop"
    /\ dataset_ids[i] \in fetch_map
    /\ obj' = [obj EXCEPT ![dataset_ids[i]] = _process_dataset(TRUE)]
    /\ batch' = Append(batch, dataset_ids[i])
    /\ IF BatchFull(batch')
       THEN pc' = "commit" /\ i' = i
       ELSE pc' = AfterIteration /\ i' = i + 1
    /\ UNCHANGED <<nonPipeVars, resumable, stop_on_error, batch_size, runs, input, dataset_ids,
                   fetch_map, successful, failed, batches_committed, saveCalls,
                   fetchCalls, storeFailed, cpBefore, fileBefore, checkpoint,
                   file, loaded>>
    /\ events' = Append(events, ProgressOf(dataset_ids[i], obj'[dataset_ids[i]]))

\* the full batch is committed (run, lines 298-301, and _commit_batch);
\* save_many reports the ids of SF as failed
CommitFull ==
    /\ pc = "commit"
    /\ \E SF \in SUBSET Range(batch) :
        /\ obj' = CommitObjs(obj, batch, SF)
        /\ successful' = successful \o Stored(batch, SF)
        /\ storeFailed' = storeFailed \cup SF
    /\ saveCalls' = Append(saveCalls, batch)
    /\ batches_committed' = batches_committed + 1
    /\ batch' = <<>>
    /\ i' = i + 1
    /\ pc' = AfterIteration
    /\ UNCHANGED <<nonPipeVars, events, resumable, stop_on_error, batch_size, runs, input, dataset_ids,
                   fetch_map, failed, fetchCalls, cpBefore, fileBefore,
                   checkpoint, file, loaded>>

\* repository.save_many raises (store connectivity lost); the exception
\* leaves run
SaveManyRaises ==
    /\ pc \in {"commit", "flush"}
    /\ batch # <<>>
    /\ saveCalls' = Append(saveCalls, batch)
    /\ pc' = "raised"
    /\ UNCHANGED <<nonPipeVars, events, resumable, stop_on_error, batch_size, runs, input, dataset_ids,
                   fetch_map, i, obj, successful, failed, batch, batches_committed,
                   fetchCalls, storeFailed, cpBefore, fileBefore, checkpoint,
                   file, loaded>>

\* the residual batch is committed and ETLPipeline.run returns
\* (run, lines 303-310)
Flush ==
    /\ pc = "flush"
    /\ IF batch # <<>>
       THEN /\ \E SF \in SUBSET Range(batch) :
                /\ obj' = CommitObjs(obj, batch, SF)
                /\ successful' = successful \o Stored(batch, SF)
                /\ storeFailed' = storeFailed \cup SF
            /\ saveCalls' = Append(saveCalls, batch)
            /\ batches_committed' = batches_committed + 1
       ELSE UNCHANGED <<obj, successful, batches_committed, saveCalls, storeFailed>>
    /\ pc' = IF resumable THEN "returned" ELSE "done"
    /\ UNCHANGED <<nonPipeVars, events, resumable, stop_on_error, batch_size, runs, input, dataset_ids,
                   fetch_map, i, failed, batch, fetchCalls, cpBefore, fileBefore,
                   checkpoint, file, loaded>>

\* ResumableETLPipeline.run, lines 510-515: the outcomes are added to the
\* checkpoint in memory
UpdatedCheckpoint ==
    [processed_ids |-> checkpoint.processed_ids \cup Range(successful),
     failed_ids |-> checkpoint.failed_ids \cup Range(failed)]

\* Checkpoint.save: path.write_text opens the file for writing, which
\* truncates it (or fails to open it and leaves it alone)
SaveOpen ==
    /\ pc = "returned"
    /\ checkpoint' = UpdatedCheckpoint
    /\ \E opens \in BOOLEAN :
        IF opens THEN file' = PartialFile /\ pc' = "writing"
        ELSE file' = file /\ pc' = "raised"
    /\ UNCHANGED <<nonPipeVars, events, resumable, stop_on_error, batch_size, runs, input, dataset_ids,
                   fetch_map, i, obj, successful, failed, batch, batches_committed,
                   saveCalls, fetchCalls, storeFailed, cpBefore, fileBefore, loaded>>

\* Checkpoint.save: the JSON document is written and the file closed; run returns
SaveWrite ==
    /\ pc = "writing"
    /\ file' = Doc(checkpoint)
    /\ pc' = "done"
    /\ UNCHANGED <<nonPipeVars, events, resumable, stop_on_error, batch_size, runs, input, dataset_ids,
                   fetch_map, i, obj, successful, failed, batch, batches_committed,
                   saveCalls, fetchCalls, storeFailed, cpBefore, fileBefore,
                   checkpoint, loaded>>

\* Checkpoint.save: the write raises OSError after the file was truncated
SaveWriteFail ==
    /\ pc = "writing"
    /\ pc' = "raised"
    /\ UNCHANGED <<nonPipeVars, events, resumable, stop_on_error, batch_size, runs, input, dataset_ids,
                   fetch_map, i, obj, successful, failed, batch, batches_committed,
                   saveCalls, fetchCalls, storeFailed, cpBefore, fileBefore,
                   checkpoint, file, loaded>>

\* the run task is cancelled at a suspension point of ETLPipeline.run
Cancel ==
    /\ pc \in {"fetch", "commit", "flush"}
    /\ pc' = "cancelled"
    /\ UNCHANGED <<nonPipeVars, events, resumable, stop_on_error, batch_size, runs, input, dataset_ids,
                   fetch_map, i, obj, successful, failed, batch, batches_committed,
                   saveCalls, fetchCalls, storeFailed, cpBefore, fileBefore,
                   checkpoint, file, loaded>>

\* the process dies during a resumable run
Crash ==
    /\ resumable
    /\ pc \in {"fetch", "loop", "commit", "flush", "returned", "writing"}
    /\ pc' = "crashed"
    /\ UNCHANGED <<nonPipeVars, events, resumable, stop_on_error, batch_size, runs, input, dataset_ids,
                   fetch_map, i, obj, successful, failed, batch, batches_committed,
                   saveCalls, fetchCalls, storeFailed, cpBefore, fileBefore,
                   checkpoint, file, loaded>>

\* Checkpoint.load
load(f) == IF f.state = "absent" THEN EmptyCheckpoint
           ELSE [processed_ids |-> f.processed_ids, failed_ids |-> f.failed_ids]

\* a new ResumableETLPipeline is constructed after a crash: __init__ loads
\* the checkpoint; json.loads raises on a partial document
Restart ==
    /\ pc = "crashed"
    /\ IF file.state = "partial"
       THEN /\ loaded' = "error"
            /\ UNCHANGED <<pc, checkpoint>>
       ELSE /\ loaded' = "ok"
            /\ checkpoint' = load(file)
            /\ pc' = "idle"
    /\ UNCHANGED <<nonPipeVars, events, resumable, stop_on_error, batch_size, runs, input, dataset_ids,
                   fetch_map, i, obj, successful, failed, batch, batches_committed,
                   saveCalls, fetchCalls, storeFailed, cpBefore, fileBefore, file>>

\* ResumableETLPipeline.reset_checkpoint
reset_checkpoint ==
    /\ resumable
    /\ pc \in {"idle", "done", "raised", "cancelled"}
    /\ checkpoint' = EmptyCheckpoint
    /\ file' = AbsentFile
    /\ pc' = "idle"
    /\ UNCHANGED <<nonPipeVars, events, resumable, stop_on_error, batch_size, runs, input, dataset_ids,
                   fetch_map, i, obj, successful, failed, batch, batches_committed,
                   saveCalls, fetchCalls, storeFailed, cpBefore, fileBefore, loaded>>

\* ---------------------------------------------------- cached resource
NoTTL == -1
NoTime == -1

AbsentEntry == [state |-> "absent", body |-> 0, cached_at |-> NoTime]
PartialEntry == [state |-> "partial", body |-> 0, cached_at |-> NoTime]
ContentOf(b) == [state |-> "complete", body |-> b, cached_at |-> NoTime]
MetaOf(t) == [state |-> "complete", body |-> 0, cached_at |-> t]

NoResult == [success |-> FALSE, from_cache |-> FALSE, body |-> 0, cached_at |-> NoTime]

InitCache ==
    /\ ttl \in {NoTTL} \cup (0..MaxTTL)
    /\ clock = 0
    /\ srcBody \in Bodies
    /\ contentFile = AbsentEntry
    /\ metaFile = AbsentEntry
    /\ cpc = [p \in Callers |-> "idle"]
    /\ op = [p \in Callers |-> "none"]
    /\ res = [p \in Callers |-> NoResult]
    /\ lastStored = NoTime
    /\ lastFetched = 0
    /\ by = [content |-> 0, meta |-> 0]
    /\ wrote = [p \in Callers |-> {}]

_is_cache_valid_strict(cached_at, now) ==
    ~(ttl # NoTTL /\ cached_at # NoTime /\ now - cached_at >= ttl)

\* _is_cache_valid: the entry is invalid only when a TTL is configured and
\* utcnow() - cached_at > ttl
_is_cache_valid(cached_at, now) ==
    ~(ttl # NoTTL /\ cached_at # NoTime /\ now - cached_at > ttl)

\* a caller starts fetch() (Resource.fetch -> CachedResource._do_fetch)
FetchStart(p) ==
    /\ cpc[p] = "idle"
    /\ cpc' = [cpc EXCEPT ![p] = "read_meta"]
    /\ op' = [op EXCEPT ![p] = "fetch"]
    /\ res' = [res EXCEPT ![p] = NoResult]
    /\ UNCHANGED <<nonCacheVars, ttl, clock, srcBody, contentFile, metaFile, lastStored, lastFetched, by>>
    /\ wrote' = [wrote EXCEPT ![p] = {}]

FetchFreshStart_reads_cache(p) ==
    /\ cpc[p] = "idle"
    /\ cpc' = [cpc EXCEPT ![p] = "read_meta"]
    /\ op' = [op EXCEPT ![p] = "fetch_fresh"]
    /\ res' = [res EXCEPT ![p] = NoResult]
    /\ wrote' = [wrote EXCEPT ![p] = {}]
    /\ UNCHANGED <<nonCacheVars, ttl, clock, srcBody, contentFile, metaFile, lastStored, lastFetched, by>>

\* a caller starts fetch_fresh()
FetchFreshStart(p) ==
    /\ cpc[p] = "idle"
    /\ cpc' = [cpc EXCEPT ![p] = "delegate"]
    /\ op' = [op EXCEPT ![p] = "fetch_fresh"]
    /\ res' = [res EXCEPT ![p] = NoResult]
    /\ UNCHANGED <<nonCacheVars, ttl, clock, srcBody, contentFile, metaFile, lastStored, lastFetched, by>>
    /\ wrote' = [wrote EXCEPT ![p] = {}]

\* _read_cache, lines 207-209: the .meta file is opened, read and decoded;
\* a missing file or a document that is not complete JSON gives None
ReadMeta(p) ==
    /\ cpc[p] = "read_meta"
    /\ IF metaFile.state = "complete"
       THEN /\ res' = [res EXCEPT ![p].cached_at = metaFile.cached_at]
            /\ cpc' = [cpc EXCEPT ![p] = "read_content"]
       ELSE /\ res' = res
            /\ cpc' = [cpc EXCEPT ![p] = "delegate"]
    /\ UNCHANGED <<nonCacheVars, ttl, clock, srcBody, contentFile, metaFile, op, lastStored, lastFetched, by, wrote>>

ReadContent_missing_as_empty(p) ==
    /\ cpc[p] = "read_content"
    /\ IF _is_cache_valid(res[p].cached_at, clock)
       THEN /\ res' = [res EXCEPT ![p] = [success |-> TRUE, from_cache |-> TRUE,
                                          body |-> contentFile.body,
                                          cached_at |-> res[p].cached_at]]
            /\ cpc' = [cpc EXCEPT ![p] = "idle"]
       ELSE /\ res' = [res EXCEPT ![p] = NoResult]
            /\ cpc' = [cpc EXCEPT ![p] = "delegate"]
    /\ UNCHANGED <<nonCacheVars, ttl, clock, srcBody, contentFile, metaFile, op, lastStored, lastFetched, by, wrote>>

\* _read_cache, lines 212-235, then _do_fetch lines 125-128: the .content
\* file is read as it is; a valid entry is returned with from_cache = True
ReadContent(p) ==
    /\ cpc[p] = "read_content"
    /\ IF contentFile.state # "absent" /\ _is_cache_valid(res[p].cached_at, clock)
       THEN /\ res' = [res EXCEPT ![p] = [success |-> TRUE, from_cache |-> TRUE,
                                          body |-> contentFile.body,
                                          cached_at |-> res[p].cached_at]]
            /\ cpc' = [cpc EXCEPT ![p] = "idle"]
       ELSE /\ res' = [res EXCEPT ![p] = NoResult]
            /\ cpc' = [cpc EXCEPT ![p] = "delegate"]
    /\ UNCHANGED <<nonCacheVars, ttl, clock, srcBody, contentFile, metaFile, op, lastStored, lastFetched, by, wrote>>

\* variant: a failed fetch of the wrapped resource drops the .content file
WrappedFetch_failure_drops_entry(p) ==
    /\ cpc[p] = "delegate"
    /\ \E ok \in BOOLEAN :
        IF ok
        THEN /\ res' = [res EXCEPT ![p] = [success |-> TRUE, from_cache |-> FALSE,
                                           body |-> srcBody, cached_at |-> NoTime]]
             /\ cpc' = [cpc EXCEPT ![p] = "open_content"]
             /\ lastFetched' = srcBody
             /\ UNCHANGED contentFile
        ELSE /\ res' = [res EXCEPT ![p] = NoResult]
             /\ cpc' = [cpc EXCEPT ![p] = "idle"]
             /\ contentFile' = AbsentEntry
             /\ UNCHANGED lastFetched
    /\ UNCHANGED <<nonCacheVars, ttl, clock, srcBody, metaFile, op, lastStored, by, wrote>>

\* self._wrapped.fetch() (lines 131-137 and 145-150): a failed result is
\* returned as it is, a successful one goes on to _write_cache
WrappedFetch(p) ==
    /\ cpc[p] = "delegate"
    /\ \E ok \in BOOLEAN :
        IF ok
        THEN /\ res' = [res EXCEPT ![p] = [success |-> TRUE, from_cache |-> FALSE,
                                           body |-> srcBody, cached_at |-> NoTime]]
             /\ cpc' = [cpc EXCEPT ![p] = "open_content"]
             /\ lastFetched' = srcBody
        ELSE /\ res' = [res EXCEPT ![p] = NoResult]
             /\ cpc' = [cpc EXCEPT ![p] = "idle"]
             /\ UNCHANGED lastFetched
    /\ UNCHANGED <<nonCacheVars, ttl, clock, srcBody, contentFile, metaFile, op, lastStored, by, wrote>>

\* _write_cache, line 248: open(content_path, "wb") truncates the file
OpenContent(p) ==
    /\ cpc[p] = "open_content"
    /\ contentFile' = PartialEntry
    /\ cpc' = [cpc EXCEPT ![p] = "write_content"]
    /\ UNCHANGED <<nonCacheVars, ttl, clock, srcBody, metaFile, op, res, lastStored, lastFetched, wrote>>
    /\ by' = [by EXCEPT !.content = p]

\* _write_cache, line 249: the content is written
WriteContent(p) ==
    /\ cpc[p] = "write_content"
    /\ contentFile' = ContentOf(res[p].body)
    /\ cpc' = [cpc EXCEPT ![p] = "open_meta"]
    /\ UNCHANGED <<nonCacheVars, ttl, clock, srcBody, metaFile, op, res, lastStored, lastFetched>>
    /\ by' = [by EXCEPT !.content = p]
    /\ wrote' = [wrote EXCEPT ![p] = @ \cup {"content"}]

\* _write_cache, lines 252-265: cached_at = utcnow(), then open(meta_path,
\* "w") truncates the file
OpenMeta(p) ==
    /\ cpc[p] = "open_meta"
    /\ res' = [res EXCEPT ![p].cached_at = clock]
    /\ metaFile' = PartialEntry
    /\ cpc' = [cpc EXCEPT ![p] = "write_meta"]
    /\ UNCHANGED <<nonCacheVars, ttl, clock, srcBody, contentFile, op, lastStored, lastFetched, wrote>>
    /\ by' = [by EXCEPT !.meta = p]

\* _write_cache, line 266: the metadata is written; the call returns the
\* result of the wrapped fetch
WriteMeta(p) ==
    /\ cpc[p] = "write_meta"
    /\ metaFile' = MetaOf(res[p].cached_at)
    /\ lastStored' = res[p].cached_at
    /\ cpc' = [cpc EXCEPT ![p] = "idle"]
    /\ UNCHANGED <<nonCacheVars, ttl, clock, srcBody, contentFile, op, res>>
    /\ by' = [by EXCEPT !.meta = p]
    /\ wrote' = [wrote EXCEPT ![p] = @ \cup {"meta"}]
    /\ UNCHANGED lastFetched

\* invalidate, lines 159-165: the .content file is removed if it exists
InvalidateContent(p) ==
    /\ cpc[p] = "idle"
    /\ op' = [op EXCEPT ![p] = "invalidate"]
    /\ res' = [res EXCEPT ![p] = NoResult]
    /\ contentFile' = AbsentEntry
    /\ lastStored' = NoTime
    /\ cpc' = [cpc EXCEPT ![p] = "remove_meta"]
    /\ UNCHANGED <<nonCacheVars, ttl, clock, srcBody, metaFile>>
    /\ by' = [by EXCEPT !.content = 0]
    /\ wrote' = [wrote EXCEPT ![p] = {}]
    /\ UNCHANGED lastFetched

\* invalidate, lines 167-171: the .meta file is removed if it exists
InvalidateMeta(p) ==
    /\ cpc[p] = "remove_meta"
    /\ metaFile' = AbsentEntry
    /\ cpc' = [cpc EXCEPT ![p] = "idle"]
    /\ UNCHANGED <<nonCacheVars, ttl, clock, srcBody, contentFile, op, res, lastStored, lastFetched, wrote>>
    /\ by' = [by EXCEPT !.meta = 0]

\* time passes
Tick ==
    /\ clock < MaxTime
    /\ clock' = clock + 1
    /\ UNCHANGED <<nonCacheVars, ttl, srcBody, contentFile, metaFile, cpc, op, res, lastStored, lastFetched, by, wrote>>

\* the source is modified
SourceChange ==
    /\ \E b \in Bodies \ {srcBody} : srcBody' = b
    /\ UNCHANGED <<nonCacheVars, ttl, clock, contentFile, metaFile, cpc, op, res, lastStored, lastFetched, by, wrote>>

\* ------------------------------------------------------- HTTP resource
\* RETRY_STATUS_CODES, line 50
RETRY_STATUS_CODES == {408, 429, 500, 502, 503, 504}

\* what one _single_fetch call can do: return a FetchResult built from a
\* response with a status code, or raise
Statuses == {200, 400, 404, 408, 429, 500, 501, 502, 503, 504}
Raised == {"ClientError", "TimeoutError", "Exception"}
Outcome == [kind : {"response"}, status : Statuses] \cup [kind : Raised, status : {0}]

\* values of retry_delay, in seconds (the default is 1.0)
RetryDelays == {1, 3}

NoHttpResult == [success |-> FALSE, error |-> "none", status |-> 0]

InitHttp ==
    /\ max_retries \in 0..MaxRetries
    /\ retry_delay \in RetryDelays
    /\ hpc = "idle"
    /\ attempt = 0
    /\ outcomes = <<>>
    /\ delays = <<>>
    /\ hres = NoHttpResult

\* variant: the delay does not grow
Pow2_constant(n) == 1

\* 2 ** attempt
Pow2(n) == IF n = 0 THEN 1 ELSE IF n = 1 THEN 2 ELSE IF n = 2 THEN 4 ELSE IF n = 3 THEN 8 ELSE 16

\* fetch() enters _do_fetch: last_error = None, the for loop starts
HttpFetchStart ==
    /\ hpc = "idle"
    /\ attempt' = 0
    /\ hpc' = IF max_retries = 0 THEN "exhausted" ELSE "request"
    /\ UNCHANGED <<nonHttpVars, max_retries, retry_delay, outcomes, delays, hres>>

\* lines 138-149: the loop body goes on to the backoff and the next attempt
\* after a failed result whose status is in RETRY_STATUS_CODES (line 139) and
\* after any exception (except aiohttp.ClientError, asyncio.TimeoutError,
\* Exception)
ShouldRetry(o) ==
    \/ o.kind = "response" /\ o.status \in RETRY_STATUS_CODES
    \/ o.kind \in {"ClientError", "TimeoutError", "Exception"}

\* one pass of the loop body, lines 130-152
SingleFetch ==
    /\ hpc = "request"
    /\ \E o \in Outcome :
          /\ outcomes' = Append(outcomes, o)
          /\ IF o.kind = "response" /\ o.status < 400
             THEN /\ hres' = [success |-> TRUE, error |-> "none", status |-> o.status]
                  /\ hpc' = "done"
             ELSE IF ~ShouldRetry(o)
             THEN /\ hres' = [success |-> FALSE, error |-> "HTTP status", status |-> o.status]
                  /\ hpc' = "done"
             ELSE /\ hres' = hres
                  /\ hpc' = IF attempt < max_retries - 1 THEN "backoff" ELSE "exhausted"
    /\ UNCHANGED <<nonHttpVars, max_retries, retry_delay, attempt, delays>>

\* lines 152-154: await asyncio.sleep(self._retry_delay * (2 ** attempt)),
\* then the next iteration
Backoff ==
    /\ hpc = "backoff"
    /\ delays' = Append(delays, retry_delay * Pow2(attempt))
    /\ attempt' = attempt + 1
    /\ hpc' = "request"
    /\ UNCHANGED <<nonHttpVars, max_retries, retry_delay, outcomes, hres>>

\* lines 156-158: the loop is exhausted
Exhausted ==
    /\ hpc = "exhausted"
    /\ hres' = [success |-> FALSE, error |-> "Failed after max_retries attempts", status |-> 0]
    /\ hpc' = "done"
    /\ UNCHANGED <<nonHttpVars, max_retries, retry_delay, attempt, outcomes, delays>>

\* the result is consumed; the resource can be fetched again
HttpReturn ==
    /\ hpc = "done"
    /\ hpc' = "idle"
    /\ attempt' = 0
    /\ outcomes' = <<>>
    /\ delays' = <<>>
    /\ hres' = NoHttpResult
    /\ UNCHANGED <<nonHttpVars, max_retries, retry_delay>>

\* an HTTP resource with the default max_retries, not in use
HttpIdle == InitHttp /\ max_retries = 3 /\ retry_delay = 1

\* ----------------------------------------------------- catalogue client
\* FetchFormat.JSON and FetchFormat.XML
JSON == "json"
XML == "gemini"

\* the formats arguments considered: [JSON] and the default [JSON, XML]
FormatLists == {<<JSON>>, <<JSON, XML>>}

\* the dataset_ids arguments considered: the lists [], [x], [x, y], [x, y, z]
\* (what an operation does depends on the positions of the ids, not on
\* their names)
RequestLists == {ids \in DistinctSeqs : \A k \in 1..Len(ids) : ids[k] = <<"x", "y", "z">>[k]}

NoFetchResult == [success |-> TRUE, json_content |-> FALSE, xml_content |-> FALSE,
                  failed_format |-> "none"]

InitClient ==
    /\ concurrency \in 1..MaxConcurrency
    /\ request_delay \in 0..MaxDelay
    /\ mode = "none"
    /\ requested = <<>>
    /\ formats = <<JSON, XML>>
    /\ progress_callback = FALSE
    /\ cpos = "idle"
    /\ tpc = [id \in IDs |-> "none"]
    /\ sem = 0
    /\ waiters = <<>>
    /\ wall = 0
    /\ wake = [id \in IDs |-> 0]
    /\ acquiredAt = <<>>
    /\ tres = [id \in IDs |-> NoFetchResult]
    /\ progress = <<>>
    /\ batch_successful = <<>>
    /\ batch_failed = <<>>
    /\ pending = {}
    /\ done = {}
    /\ yielded = <<>>

\* a client that is not in use
ClientIdle == InitClient /\ concurrency = 1 /\ request_delay = 1

\* fetch_dataset, lines 208-233: the formats are fetched one after the
\* other; ok[k] tells whether _fetch_format of formats[k] returns or raises
\* FetchError; the first failure ends the loop with success = False and
\* failed_format set, the content fetched so far stays in the result
FirstFailure(ok) ==
    IF \A k \in 1..Len(formats) : ok[k] THEN 0
    ELSE CHOOSE k \in 1..Len(formats) : ~ok[k] /\ \A j \in 1..(k - 1) : ok[j]

Fetched(ok, fmt) ==
    \E k \in 1..Len(formats) :
        /\ formats[k] = fmt
        /\ FirstFailure(ok) = 0 \/ k < FirstFailure(ok)

fetch_dataset_any_ok(ok) ==
    [success |-> \E k \in 1..Len(formats) : ok[k],
     json_content |-> Fetched(ok, JSON),
     xml_content |-> Fetched(ok, XML),
     failed_format |-> IF FirstFailure(ok) = 0 THEN "none" ELSE formats[FirstFailure(ok)]]

fetch_dataset(ok) ==
    [success |-> FirstFailure(ok) = 0,
     json_content |-> Fetched(ok, JSON),
     xml_content |-> Fetched(ok, XML),
     failed_format |-> IF FirstFailure(ok) = 0 THEN "none" ELSE formats[FirstFailure(ok)]]

\* the ids whose task has not run yet; tasks are created in input order
\* (lines 291-294, 376-379) and the event loop runs them in that order
NotStarted == {k \in 1..Len(requested) : tpc[requested[k]] = "new"}
AllStarted == NotStarted = {}
NextToStart == requested[CHOOSE k \in NotStarted : \A j \in NotStarted : k <= j]

Update(id, status) == [dataset_id |-> id, status |-> status]

\* progress_callback(...) under "if progress_callback:"
Notify(id, status) ==
    progress' = IF mode = "fetch_all" /\ progress_callback
                THEN Append(progress, Update(id, status))
                ELSE progress

\* fetch_all (lines 252-297) or _stream_fetch (lines 366-379) is called:
\* a new semaphore of width concurrency, one task per id
ClientCall ==
    /\ cpos = "idle"
    /\ \E m \in {"fetch_all", "stream"}, ids \in RequestLists, fs \in FormatLists,
          cb \in BOOLEAN :
          /\ cb = (m = "fetch_all")
          /\ mode' = m
          /\ requested' = ids
          /\ formats' = fs
          /\ progress_callback' = cb
          /\ tpc' = [id \in IDs |-> IF id \in Range(ids) THEN "new" ELSE "none"]
          /\ pending' = IF m = "stream" THEN Range(ids) ELSE {}
          /\ cpos' = IF m = "fetch_all" THEN "gather" ELSE "wait"
    /\ sem' = concurrency
    /\ UNCHANGED <<nonClientVars, concurrency, request_delay, waiters, wall, wake,
                   acquiredAt, tres, progress, batch_successful, batch_failed, done,
                   yielded>>

TaskStart_no_semaphore ==
    /\ cpos \in {"gather", "wait"}
    /\ ~AllStarted
    /\ Notify(NextToStart, "fetching")
    /\ tpc' = [tpc EXCEPT ![NextToStart] = "fetching"]
    /\ acquiredAt' = Append(acquiredAt, wall)
    /\ UNCHANGED <<nonClientVars, concurrency, request_delay, mode, requested, formats,
                   progress_callback, cpos, sem, waiters, wall, wake, tres, batch_successful,
                   batch_failed, pending, done, yielded>>

\* the next task runs up to its first suspension: fetch_with_progress lines
\* 262-271 (the "fetching" update, then the semaphore), fetch_one line 370;
\* it enters fetch_dataset if the semaphore is free and queues up otherwise
TaskStart ==
    /\ cpos \in {"gather", "wait"}
    /\ ~AllStarted
    /\ Notify(NextToStart, "fetching")
    /\ IF sem > 0
       THEN /\ sem' = sem - 1
            /\ tpc' = [tpc EXCEPT ![NextToStart] = "fetching"]
            /\ acquiredAt' = Append(acquiredAt, wall)
            /\ waiters' = waiters
       ELSE /\ sem' = sem
            /\ tpc' = [tpc EXCEPT ![NextToStart] = "waiting"]
            /\ acquiredAt' = acquiredAt
            /\ waiters' = Append(waiters, NextToStart)
    /\ UNCHANGED <<nonClientVars, concurrency, request_delay, mode, requested, formats,
                   progress_callback, cpos, wall, wake, tres, batch_successful,
                   batch_failed, pending, done, yielded>>

\* fetch_dataset returns (lines 272, 371) and the task starts
\* asyncio.sleep(self._request_delay) (lines 275, 372), still inside the
\* semaphore
FetchDataset(id) ==
    /\ AllStarted
    /\ tpc[id] = "fetching"
    /\ \E ok \in [1..Len(formats) -> BOOLEAN] :
          tres' = [tres EXCEPT ![id] = fetch_dataset(ok)]
    /\ wake' = [wake EXCEPT ![id] = wall + request_delay]
    /\ tpc' = [tpc EXCEPT ![id] = "sleeping"]
    /\ UNCHANGED <<nonClientVars, concurrency, request_delay, mode, requested, formats,
                   progress_callback, cpos, sem, waiters, wall, acquiredAt, progress,
                   batch_successful, batch_failed, pending, done, yielded>>

\* the sleep is over: the task leaves "async with self._semaphore", which
\* hands the semaphore to the longest waiting task, gives the "completed" or
\* "failed" update (lines 278-286) and finishes with its result
SleepDone(id) ==
    /\ tpc[id] = "sleeping"
    /\ wall >= wake[id]
    /\ IF waiters = <<>>
       THEN /\ sem' = sem + 1
            /\ tpc' = [tpc EXCEPT ![id] = "finished"]
            /\ UNCHANGED <<waiters, acquiredAt>>
       ELSE /\ sem' = sem
            /\ tpc' = [tpc EXCEPT ![id] = "finished", ![Head(waiters)] = "fetching"]
            /\ waiters' = Tail(waiters)
            /\ acquiredAt' = Append(acquiredAt, wall)
    /\ Notify(id, IF tres[id].success THEN "completed" ELSE "failed")
    /\ wake' = [wake EXCEPT ![id] = 0]
    /\ UNCHANGED <<nonClientVars, concurrency, request_delay, mode, requested, formats,
                   progress_callback, cpos, wall, tres, batch_successful,
                   batch_failed, pending, done, yielded>>

\* asyncio.wait(..., return_when=FIRST_COMPLETED) has a finished task to
\* return; the event loop resumes the generator before time goes on
WaitReady == cpos = "wait" /\ \E id \in pending : tpc[id] = "finished"

\* wall time passes while tasks are running
ClientTick ==
    /\ \E id \in IDs : tpc[id] \in {"fetching", "sleeping"}
    /\ ~WaitReady
    /\ wall < MaxWall
    /\ wall' = wall + 1
    /\ UNCHANGED <<nonClientVars, concurrency, request_delay, mode, requested, formats,
                   progress_callback, cpos, tpc, sem, waiters, wake, acquiredAt, tres,
                   progress, batch_successful, batch_failed, pending, done, yielded>>

\* fetch_all, lines 297-314: gather returns the results in input order and
\* they are sorted into successful and failed
GatherReturns ==
    /\ cpos = "gather"
    /\ \A id \in Range(requested) : tpc[id] = "finished"
    /\ batch_successful' = SelectSeq(requested, LAMBDA id : tres[id].success)
    /\ batch_failed' = SelectSeq(requested, LAMBDA id : ~tres[id].success)
    /\ cpos' = "returned"
    /\ UNCHANGED <<nonClientVars, concurrency, request_delay, mode, requested, formats,
                   progress_callback, tpc, sem, waiters, wall, wake, acquiredAt, tres,
                   progress, pending, done, yielded>>

\* _stream_fetch, lines 382-386: asyncio.wait returns the set of the pending
\* tasks that have finished by now; with nothing pending the generator ends
WaitReturns ==
    /\ cpos = "wait"
    /\ AllStarted
    /\ IF pending = {}
       THEN done' = {} /\ cpos' = "returned"
       ELSE /\ \E id \in pending : tpc[id] = "finished"
            /\ done' = {id \in pending : tpc[id] = "finished"}
            /\ cpos' = "iter"
    /\ UNCHANGED <<nonClientVars, concurrency, request_delay, mode, requested, formats,
                   progress_callback, tpc, sem, waiters, wall, wake, acquiredAt, tres,
                   progress, batch_successful, batch_failed, pending, yielded>>

\* _stream_fetch, lines 388-391: "for task in done" takes the next task of
\* the set, in the order in which the set happens to iterate, and yields its
\* result; the generator stays suspended while the consumer works
Yield ==
    /\ cpos = "iter"
    /\ \E id \in done :
          /\ yielded' = Append(yielded, id)
          /\ pending' = pending \ {id}
          /\ done' = done \ {id}
          /\ cpos' = IF done = {id} THEN "wait" ELSE "iter"
    /\ UNCHANGED <<nonClientVars, concurrency, request_delay, mode, requested, formats,
                   progress_callback, tpc, sem, waiters, wall, wake, acquiredAt, tres,
                   progress, batch_successful, batch_failed>>

\* ------------------------------------------------------ dataset repository
\* etl/repository/dataset_repository.py with etl/models/converters.py.  A
\* DatasetMetadata is its identifier, title and keywords; a row of the
\* datasets table is keyed by the unique identifier column.
RepoIds == {"x", "y"}
Titles == {1, 2}
KeywordLists == {<<>>, <<"k">>}
DatasetMetadata == [identifier : RepoIds, title : Titles, keywords : KeywordLists]
NoRow == [title |-> 0]
EntityLists == UNION {[1..n -> DatasetMetadata] : n \in 0..MaxEntities}

\* domain_to_orm: a new row with the scalar fields and one Keyword per text
domain_to_orm(domain) == [title |-> domain.title, keywords |-> domain.keywords]

\* update_dataset_from_domain reaches "dataset.keywords.append(keyword)" for
\* the first keyword of domain; dataset is the module etl.models.dataset
\* there, which has no attribute keywords: AttributeError
UpdateRaises(domain) == domain.keywords # <<>>

\* update_dataset_from_domain when it returns: scalar fields replaced,
\* existing.keywords cleared and none appended
update_dataset_from_domain(existing, domain) ==
    [existing EXCEPT !.title = domain.title, !.keywords = <<>>]

\* orm_to_domain: the row read back as a DatasetMetadata
orm_to_domain(identifier, dataset) ==
    [identifier |-> identifier, title |-> dataset.title, keywords |-> dataset.keywords]

None == [identifier |-> "None"]

\* DatasetRepository.get with its own session: the committed row, or None
get(identifier) ==
    IF db[identifier] = NoRow THEN None ELSE orm_to_domain(identifier, db[identifier])

\* the lookup-then-update-or-insert shared by save and save_many, on table t
Upsert(t, entity) ==
    IF t[entity.identifier] # NoRow
    THEN [t EXCEPT ![entity.identifier] = update_dataset_from_domain(@, entity)]
    ELSE [t EXCEPT ![entity.identifier] = domain_to_orm(entity)]

UpsertRaises(t, entity) == t[entity.identifier] # NoRow /\ UpdateRaises(entity)

InitRepo ==
    /\ db = [id \in RepoIds |-> NoRow]
    /\ session_rows = db
    /\ rpc = "idle"
    /\ entities = <<>>
    /\ rpos = 1
    /\ bulk_succeeded = <<>>
    /\ bulk_failed = <<>>
    /\ db0 = db
    /\ last_saved = [id \in RepoIds |-> NoRow]

RepoIdle == InitRepo

\* DatasetRepository.save with its own session (should_close): commit, or
\* rollback and re-raise
RepoSave ==
    /\ rpc = "idle"
    /\ \E entity \in DatasetMetadata :
        /\ IF UpsertRaises(db, entity)
           THEN db' = db
           ELSE db' = Upsert(db, entity)
        /\ last_saved' = [last_saved EXCEPT ![entity.identifier] = domain_to_orm(entity)]
    /\ session_rows' = db'
    /\ UNCHANGED <<nonRepoVars, rpc, entities, rpos, bulk_succeeded, bulk_failed, db0>>

\* save_many is called: result = BulkOperationResult(), a session is created
SaveManyCall ==
    /\ rpc = "idle"
    /\ \E es \in EntityLists : entities' = es
    /\ rpc' = "loop"
    /\ rpos' = 1
    /\ bulk_succeeded' = <<>>
    /\ bulk_failed' = <<>>
    /\ session_rows' = db
    /\ db0' = db
    /\ UNCHANGED <<nonRepoVars, db, last_saved>>

\* one iteration of "for entity in entities": flush and add_success, or the
\* except branch: session.rollback() and add_failure
SaveManyEntity ==
    /\ rpc = "loop"
    /\ rpos <= Len(entities)
    /\ LET entity == entities[rpos] IN
        IF UpsertRaises(session_rows, entity)
        THEN /\ session_rows' = db
             /\ bulk_failed' = Append(bulk_failed, entity.identifier)
             /\ UNCHANGED bulk_succeeded
        ELSE /\ session_rows' = Upsert(session_rows, entity)
             /\ bulk_succeeded' = Append(bulk_succeeded, entity.identifier)
             /\ UNCHANGED bulk_failed
    /\ rpos' = rpos + 1
    /\ UNCHANGED <<nonRepoVars, db, rpc, entities, db0, last_saved>>

\* after the loop: commit when result.success_count > 0, return result, close
SaveManyReturn ==
    /\ rpc = "loop"
    /\ rpos > Len(entities)
    /\ db' = IF Len(bulk_succeeded) > 0 THEN session_rows ELSE db
    /\ session_rows' = db'
    /\ rpc' = "returned"
    /\ UNCHANGED <<nonRepoVars, entities, rpos, bulk_succeeded, bulk_failed, db0,
                   last_saved>>

\* the caller has read the result
SaveManyDone ==
    /\ rpc = "returned"
    /\ rpc' = "idle"
    /\ entities' = <<>>
    /\ rpos' = 1
    /\ bulk_succeeded' = <<>>
    /\ bulk_failed' = <<>>
    /\ db0' = db
    /\ UNCHANGED <<nonRepoVars, db, session_rows, last_saved>>

\* ------------------------------------------------------------ hybrid search
\* etl/search/hybrid.py.  A text is the sequence of its characters.  Scores
\* are exact multiples of 1/ScoreUnit and weights are counted in halves, so
\* that weight / (RRF_K + rank) and the 1.5 factor of short queries are
\* integers; the code computes the same sums in floating point.
RRF_K == 60
ScoreUnit == 2 * 61 * 62 * 63 * 64
exact_match_boost == 10
Weights == {2, 4}
DocIds == {"A", "B", "C", "D"}

Hex == {"0", "1", "2", "3", "4", "5", "6", "7", "8", "9",
        "a", "b", "c", "d", "e", "f", "A", "B", "C", "D", "E", "F"}

QUuid == <<"f", "7", "1", "0", "b", "e", "d", "1", "-", "e", "5", "6", "4", "-",
           "4", "7", "b", "f", "-", "b", "8", "2", "c", "-",
           "4", "c", "2", "a", "2", "f", "E", "2", "8", "1", "0", "e">>
QNotUuid == <<"g">> \o Tail(QUuid)
QAb == <<"a", "b">>
QThree == <<"a", " ", "b", " ", "c">>

\* the query strings passed to search
Queries == {QUuid, QUuid \o <<" ">>, QNotUuid, QAb, <<"a", "B", " ">>,
            <<"'">> \o QAb \o <<"'">>, QThree, <<"p", "e", "a", "t">>}

\* title, keywords and access level stored for each dataset (titles have
\* min_length 1)
Catalogue ==
    [d \in DocIds |->
        CASE d = "A" -> [title |-> <<"A", "B">>, keywords |-> <<>>,
                         access_level |-> "admin_only"]
          [] d = "B" -> [title |-> <<"c", "a", "b">>, keywords |-> <<>>,
                         access_level |-> "restricted"]
          [] d = "C" -> [title |-> <<"a", "B">>, keywords |-> << <<"c">>, <<"A", "b">> >>,
                         access_level |-> "public"]
          [] d = "D" -> [title |-> <<"a", "b", " ", "d">>, keywords |-> <<>>,
                         access_level |-> "public"]]

\* result lists of a search backend: distinct dataset ids in rank order
ResultLists ==
    {s \in UNION {[1..n -> DocIds] : n \in 0..MaxResults} :
        \A j, k \in 1..Len(s) : s[j] = s[k] => j = k}

\* str.lower on one character
LowerChar(c) ==
    CASE c = "A" -> "a" [] c = "B" -> "b" [] c = "C" -> "c" [] c = "D" -> "d"
      [] c = "E" -> "e" [] c = "F" -> "f" [] OTHER -> c

\* str.lower
Lower(s) == [k \in 1..Len(s) |-> LowerChar(s[k])]

\* "sub in s" for strings
Contains(s, sub) ==
    \E k \in 0..(Len(s) - Len(sub)) : SubSeq(s, k + 1, k + Len(sub)) = sub

\* str.strip(): leading and trailing whitespace removed
RECURSIVE LStrip(_, _)
LStrip(s, chars) ==
    IF s # <<>> /\ Head(s) \in chars THEN LStrip(Tail(s), chars) ELSE s

RECURSIVE RStrip(_, _)
RStrip(s, chars) ==
    IF s # <<>> /\ s[Len(s)] \in chars THEN RStrip(SubSeq(s, 1, Len(s) - 1), chars) ELSE s

Strip(s, chars) == RStrip(LStrip(s, chars), chars)

\* len(query.split()): the number of maximal runs of non-whitespace
WordCount(s) ==
    Cardinality({k \in 1..Len(s) : s[k] # " " /\ (k = 1 \/ s[k - 1] = " ")})

\* UUID_PATTERN.match(query), case-insensitive 8-4-4-4-12 hex
UUID_PATTERN(s) ==
    /\ Len(s) = 36
    /\ \A k \in 1..36 : IF k \in {9, 14, 19, 24} THEN s[k] = "-" ELSE s[k] \in Hex

\* variant: the UUID test is skipped
_detect_query_type_no_uuid(q) ==
    IF Len(q) > 0 /\ ((Head(q) = "\"" /\ q[Len(q)] = "\"")
                       \/ (Head(q) = "'" /\ q[Len(q)] = "'")) THEN "exact_title"
    ELSE IF WordCount(q) <= 2 THEN "short"
    ELSE "normal"

_detect_query_type(q) ==
    IF UUID_PATTERN(q) THEN "exact_id"
    ELSE IF Len(q) > 0 /\ ((Head(q) = "\"" /\ q[Len(q)] = "\"")
                           \/ (Head(q) = "'" /\ q[Len(q)] = "'")) THEN "exact_title"
    ELSE IF WordCount(q) <= 2 THEN "short"
    ELSE "normal"

\* HybridSearchResult(dataset_id, title, abstract, hybrid_score=0, keywords);
\* a rank of 0 stands for None.  access_level is the dataclass default where
\* the constructor call does not pass it, and getattr(result, "access_level",
\* "public") of a vector-store SearchResult, which has no such attribute
NewResult(d) ==
    [dataset_id |-> d, title |-> Catalogue[d].title, keywords |-> Catalogue[d].keywords,
     hybrid_score |-> 0, semantic_rank |-> 0, keyword_rank |-> 0,
     from_semantic |-> FALSE, from_keyword |-> FALSE, is_exact_match |-> FALSE,
     access_level |-> "public"]

\* variant: ranks counted from 0
rrf_score_zero_indexed(weight, rank) ==
    (weight * (ScoreUnit \div 2)) \div (RRF_K + rank - 1)

\* variant: every rank contributes as rank 1
rrf_score_ignores_rank(weight, rank) == (weight * (ScoreUnit \div 2)) \div (RRF_K + 1)

\* weight / (self.RRF_K + rank), weight in halves
rrf_score(weight, rank) == (weight * (ScoreUnit \div 2)) \div (RRF_K + rank)

\* "dataset_id in scores" and the position of that key; scores is the dict
\* as the sequence of its values in insertion order
HasKey(scores, d) == \E k \in 1..Len(scores) : scores[k].dataset_id = d
IndexOf(scores, d) == CHOOSE k \in 1..Len(scores) : scores[k].dataset_id = d

\* one of the two loops of _merge_rrf, from position rank of list on
RECURSIVE Accumulate(_, _, _, _, _)
Accumulate(scores, list, rank, weight, source) ==
    IF rank > Len(list) THEN scores
    ELSE LET d == list[rank]
             present == IF HasKey(scores, d) THEN scores ELSE Append(scores, NewResult(d))
             k == IndexOf(present, d)
             added == present[k].hybrid_score + rrf_score(weight, rank)
             updated ==
                 IF source = "semantic"
                 THEN [present EXCEPT ![k] = [@ EXCEPT !.hybrid_score = added,
                                                      !.semantic_rank = rank,
                                                      !.from_semantic = TRUE]]
                 ELSE [present EXCEPT ![k] = [@ EXCEPT !.hybrid_score = added,
                                                      !.keyword_rank = rank,
                                                      !.from_keyword = TRUE,
                                                      !.access_level =
                                                          Catalogue[d].access_level]]
         IN Accumulate(updated, list, rank + 1, weight, source)

\* _merge_rrf: list(scores.values()) after the semantic and the keyword loop
_merge_rrf(sem_list, kw_list, sem_weight, kw_weight) ==
    Accumulate(Accumulate(<<>>, sem_list, 1, sem_weight, "semantic"),
               kw_list, 1, kw_weight, "keyword")

\* variant: the containment boost is not an elif of the equality boost
BoostOne_contains_not_exclusive(r, q) ==
    LET query_lower == Lower(q)
        title_equal == r.title # <<>> /\ query_lower = Lower(r.title)
        title_contains == r.title # <<>> /\ Contains(Lower(r.title), query_lower)
        keyword_equal == \E k \in 1..Len(r.keywords) : query_lower = Lower(r.keywords[k])
        by_equal == IF title_equal THEN exact_match_boost * ScoreUnit ELSE 0
        by_contains == IF title_contains THEN (exact_match_boost * ScoreUnit * 5) \div 10
                       ELSE 0
        by_keyword == IF keyword_equal THEN (exact_match_boost * ScoreUnit * 3) \div 10 ELSE 0
    IN [r EXCEPT !.hybrid_score = @ + by_equal + by_contains + by_keyword,
                 !.is_exact_match = @ \/ title_equal]

\* the body of the loop of _boost_exact_matches for one result
BoostOne(r, q) ==
    LET query_lower == Lower(q)
        title_equal == r.title # <<>> /\ query_lower = Lower(r.title)
        title_contains == r.title # <<>> /\ Contains(Lower(r.title), query_lower)
        keyword_equal == \E k \in 1..Len(r.keywords) : query_lower = Lower(r.keywords[k])
        by_title == IF title_equal THEN exact_match_boost * ScoreUnit
                    ELSE IF title_contains THEN (exact_match_boost * ScoreUnit * 5) \div 10
                    ELSE 0
        by_keyword == IF keyword_equal THEN (exact_match_boost * ScoreUnit * 3) \div 10 ELSE 0
    IN [r EXCEPT !.hybrid_score = @ + by_title + by_keyword,
                 !.is_exact_match = @ \/ title_equal]

_boost_exact_matches(list, q) == [k \in 1..Len(list) |-> BoostOne(list[k], q)]

\* variant: the list is left in merge order
SortByScore_unsorted(list) == list

\* list.sort(key=hybrid_score, reverse=True): stable, equal scores keep
\* their order
RECURSIVE SortByScore(_)
SortByScore(list) ==
    IF list = <<>> THEN <<>>
    ELSE LET r == list[Len(list)]
             sorted == SortByScore(SubSeq(list, 1, Len(list) - 1))
             p == Cardinality({j \in 1..Len(sorted) :
                                 sorted[j].hybrid_score >= r.hybrid_score})
         IN SubSeq(sorted, 1, p) \o <<r>> \o SubSeq(sorted, p + 1, Len(sorted))

\* merged[:limit]
Slice(list, n) == SubSeq(list, 1, IF n < Len(list) THEN n ELSE Len(list))

InitSearch ==
    /\ semantic_weight \in Weights
    /\ keyword_weight \in Weights
    /\ spc = "idle"
    /\ query = <<>>
    /\ limit = 1
    /\ query_type = "none"
    /\ semantic_w = semantic_weight
    /\ keyword_w = keyword_weight
    /\ semantic_results = <<>>
    /\ keyword_results = <<>>
    /\ merged = <<>>
    /\ boosted = <<>>
    /\ results = <<>>
    /\ vector_calls = 0
    /\ get_calls = 0
    /\ search_calls = 0

SearchIdle == InitSearch /\ semantic_weight = 2 /\ keyword_weight = 2

\* search is called: strip, _detect_query_type, weights for short queries
SearchCall ==
    /\ spc = "idle"
    /\ bpc = "idle"
    /\ \E q \in Queries, n \in 1..MaxLimit :
        /\ query' = Strip(q, {" "})
        /\ limit' = n
    /\ query_type' = _detect_query_type(query')
    /\ semantic_w' = semantic_weight
    /\ keyword_w' = IF query_type' = "short" THEN (keyword_weight * 3) \div 2
                    ELSE keyword_weight
    /\ spc' = "called"
    /\ UNCHANGED <<nonSearchVars, semantic_weight, keyword_weight, semantic_results,
                   keyword_results, merged, boosted, results, vector_calls, get_calls,
                   search_calls>>

\* _exact_id_search: repository.get(query) finds the dataset or returns None
ExactIdSearch ==
    /\ spc = "called"
    /\ query_type = "exact_id"
    /\ get_calls' = get_calls + 1
    /\ \E found \in BOOLEAN :
        results' = IF found
                   THEN << [dataset_id |-> query, title |-> Catalogue["A"].title,
                            keywords |-> Catalogue["A"].keywords,
                            hybrid_score |-> ScoreUnit,
                            is_exact_match |-> TRUE, from_semantic |-> FALSE,
                            from_keyword |-> TRUE, semantic_rank |-> 0,
                            keyword_rank |-> 0, access_level |-> "public"] >>
                   ELSE <<>>
    /\ spc' = "returned"
    /\ UNCHANGED <<nonSearchVars, semantic_weight, keyword_weight, query, limit,
                   query_type, semantic_w, keyword_w, semantic_results, keyword_results,
                   merged, boosted, vector_calls, search_calls>>

\* _exact_title_search on the query without its quotes
ExactTitleSearch ==
    /\ spc = "called"
    /\ query_type = "exact_title"
    /\ search_calls' = search_calls + 1
    /\ \E found \in ResultLists :
        /\ Len(found) <= limit
        /\ keyword_results' = found
    /\ LET clean == Strip(query, {"\"", "'"}) IN
        results' = [k \in 1..Len(keyword_results') |->
            LET d == keyword_results'[k]
                is_exact == Contains(Lower(Catalogue[d].title), Lower(clean))
            IN [NewResult(d) EXCEPT
                    !.hybrid_score = IF is_exact THEN ScoreUnit ELSE ScoreUnit \div 2,
                    !.keyword_rank = k,
                    !.is_exact_match = is_exact,
                    !.from_keyword = TRUE]]
    /\ spc' = "returned"
    /\ UNCHANGED <<nonSearchVars, semantic_weight, keyword_weight, query, limit,
                   query_type, semantic_w, keyword_w, semantic_results, merged, boosted,
                   vector_calls, get_calls>>

\* the two backend searches are started and awaited
RunSearches ==
    /\ spc = "called"
    /\ query_type \in {"short", "normal"}
    /\ vector_calls' = vector_calls + 1
    /\ search_calls' = search_calls + 1
    /\ semantic_results' \in ResultLists
    /\ keyword_results' \in ResultLists
    /\ spc' = "searched"
    /\ UNCHANGED <<nonSearchVars, semantic_weight, keyword_weight, query, limit,
                   query_type, semantic_w, keyword_w, merged, boosted, results, get_calls>>

MergeRRF ==
    /\ spc = "searched"
    /\ merged' = _merge_rrf(semantic_results, keyword_results, semantic_w, keyword_w)
    /\ spc' = "merged"
    /\ UNCHANGED <<nonSearchVars, semantic_weight, keyword_weight, query, limit,
                   query_type, semantic_w, keyword_w, semantic_results, keyword_results,
                   boosted, results, vector_calls, get_calls, search_calls>>

BoostExactMatches ==
    /\ spc = "merged"
    /\ boosted' = _boost_exact_matches(merged, query)
    /\ spc' = "boosted"
    /\ UNCHANGED <<nonSearchVars, semantic_weight, keyword_weight, query, limit,
                   query_type, semantic_w, keyword_w, semantic_results, keyword_results,
                   merged, results, vector_calls, get_calls, search_calls>>

\* merged.sort(...) and the response with merged[:limit]
SortAndReturn ==
    /\ spc = "boosted"
    /\ results' = Slice(SortByScore(boosted), limit)
    /\ spc' = "returned"
    /\ UNCHANGED <<nonSearchVars, semantic_weight, keyword_weight, query, limit,
                   query_type, semantic_w, keyword_w, semantic_results, keyword_results,
                   merged, boosted, vector_calls, get_calls, search_calls>>

\* the caller has read the response
SearchDone ==
    /\ spc = "returned"
    /\ apc = "idle"
    /\ bpc = "idle"
    /\ spc' = "idle"
    /\ query' = <<>>
    /\ limit' = 1
    /\ query_type' = "none"
    /\ semantic_w' = semantic_weight
    /\ keyword_w' = keyword_weight
    /\ semantic_results' = <<>>
    /\ keyword_results' = <<>>
    /\ merged' = <<>>
    /\ boosted' = <<>>
    /\ results' = <<>>
    /\ vector_calls' = 0
    /\ get_calls' = 0
    /\ search_calls' = 0
    /\ UNCHANGED <<nonSearchVars, semantic_weight, keyword_weight>>

\* --------------------------------------------------------- advanced search
\* etl/search/advanced.py, called by api/routers/search.py on the results of
\* a hybrid search with the query as the caller gave it.
title_weight == 2
QPeat == <<"p", "e", "a", "t">>

\* _SYNONYMS.get(word, []); of its keys only "peat" occurs in Queries
_SYNONYMS(word) ==
    IF word = QPeat
    THEN << <<"p", "e", "a", "t", "l", "a", "n", "d">>, <<"b", "o", "g">>,
            <<"m", "i", "r", "e">>, <<"f", "e", "n">> >>
    ELSE <<>>

\* str.split(): the maximal runs of non-whitespace, in order
RECURSIVE Split(_)
Split(s) ==
    IF s = <<>> THEN <<>>
    ELSE IF Head(s) = " " THEN Split(Tail(s))
    ELSE LET n == CHOOSE m \in 1..Len(s) :
                      /\ \A k \in 1..m : s[k] # " "
                      /\ m = Len(s) \/ s[m + 1] = " "
         IN <<SubSeq(s, 1, n)>> \o Split(SubSeq(s, n + 1, Len(s)))

\* the loops of _expand: the synonyms of the words from position k on that
\* are not in already, each once
RECURSIVE ExtraTokens(_, _, _)
ExtraTokens(words, k, already) ==
    IF k > Len(words) THEN <<>>
    ELSE LET fresh == SelectSeq(_SYNONYMS(words[k]), LAMBDA syn : syn \notin already)
         IN fresh \o ExtraTokens(words, k + 1, already \cup Range(fresh))

\* " " + " ".join(tokens)
RECURSIVE JoinAfter(_)
JoinAfter(tokens) ==
    IF tokens = <<>> THEN <<>> ELSE <<" ">> \o Head(tokens) \o JoinAfter(Tail(tokens))

\* QueryUnderstanding._expand: the query followed by the added synonyms
_expand(q) ==
    LET words == Split(Lower(q))
    IN q \o JoinAfter(ExtraTokens(words, 1, Range(words)))

\* the loop body of FieldWeightedScoring.rescore for one result
RescoreOne(r, q) ==
    LET ql == Lower(q)
        by_title == IF ql = Lower(r.title) THEN title_weight * ScoreUnit
                    ELSE IF Contains(Lower(r.title), ql)
                         THEN (title_weight * ScoreUnit * 5) \div 10
                    ELSE 0
        by_keyword == IF \E k \in 1..Len(r.keywords) : ql = Lower(r.keywords[k])
                      THEN ScoreUnit ELSE 0
    IN [r EXCEPT !.hybrid_score = @ + by_title + by_keyword]

\* variant: the boosted list is not sorted again
rescore_no_sort(list, q) == [k \in 1..Len(list) |-> RescoreOne(list[k], q)]

\* FieldWeightedScoring.rescore: boost every result, then sort by score
rescore(list, q) == SortByScore([k \in 1..Len(list) |-> RescoreOne(list[k], q)])

\* CrossEncoderReranker.rerank with a loaded model that predicts scores[k]
\* for the k-th result (top_n = 10 covers the whole list)
rerank(list, scores) ==
    SortByScore([k \in 1..Len(list) |-> [list[k] EXCEPT !.hybrid_score = scores[k]]])

RerankScores == {0, ScoreUnit}

InitAdv ==
    /\ use_reranker \in BOOLEAN
    /\ model_loadable \in BOOLEAN
    /\ apc = "idle"
    /\ hybrid_results = <<>>
    /\ expanded = <<>>
    /\ adv_results = <<>>
    /\ reranked = FALSE

AdvIdle == InitAdv /\ use_reranker /\ model_loadable

\* AdvancedSearchPipeline.search(q, results) after a hybrid search of q,
\* steps 1 and 2: analyze and rescore
AdvancedRescore ==
    /\ spc = "returned"
    /\ apc = "idle"
    /\ bpc = "idle"
    /\ hybrid_results' = results
    /\ \E q \in Queries :
        /\ Strip(q, {" "}) = query
        /\ expanded' = _expand(q)
    /\ adv_results' = rescore(results, expanded')
    /\ apc' = "rescored"
    /\ UNCHANGED <<nonAdvVars, use_reranker, model_loadable, reranked>>

\* step 3 and the return: rerank unless _load_model raises RuntimeError,
\* which search catches
AdvancedRerank ==
    /\ apc = "rescored"
    /\ IF use_reranker /\ model_loadable
       THEN /\ \E scores \in [1..Len(adv_results) -> RerankScores] :
                   adv_results' = rerank(adv_results, scores)
            /\ reranked' = TRUE
       ELSE /\ adv_results' = adv_results
            /\ reranked' = FALSE
    /\ apc' = "returned"
    /\ UNCHANGED <<nonAdvVars, use_reranker, model_loadable, hybrid_results, expanded>>

\* the caller has read the result
AdvancedDone ==
    /\ apc = "returned"
    /\ bpc = "idle"
    /\ apc' = "idle"
    /\ hybrid_results' = <<>>
    /\ expanded' = <<>>
    /\ adv_results' = <<>>
    /\ reranked' = FALSE
    /\ UNCHANGED <<nonAdvVars, use_reranker, model_loadable>>

\* ---------------------------------------------------------------- guardrails
\* etl/guardrails/filters.py.  A dataset dict is its identifier and its
\* access_level entry; NoKey stands for a dict without the key.
AccessValues == {"public", "restricted", "admin_only", "secret", "NoKey"}
Roles == {"None", "researcher", "admin", "mystery_role"}
DatasetDicts == [identifier : {"a", "b"}, access_level : AccessValues]
DatasetLists == UNION {[1..n -> DatasetDicts] : n \in 0..MaxDatasets}

_ROLE_ALLOWED_LEVELS ==
    [r \in {"None", "researcher", "admin"} |->
        CASE r = "None" -> {"public"}
          [] r = "researcher" -> {"public", "restricted"}
          [] r = "admin" -> {"public", "restricted", "admin_only"}]

\* variant: an unknown role gets the levels of admin
allowed_access_levels_unknown_as_admin(role) ==
    IF role \notin DOMAIN _ROLE_ALLOWED_LEVELS
    THEN _ROLE_ALLOWED_LEVELS["admin"]
    ELSE _ROLE_ALLOWED_LEVELS[role]

allowed_access_levels(role) ==
    IF role \notin DOMAIN _ROLE_ALLOWED_LEVELS
    THEN _ROLE_ALLOWED_LEVELS["None"]
    ELSE _ROLE_ALLOWED_LEVELS[role]

\* d.get("access_level", "public")
GetAccessLevel(d) == IF d.access_level = "NoKey" THEN "public" ELSE d.access_level

\* the list comprehension of filter_datasets_by_access, from position k on
RECURSIVE Comprehension(_, _, _)
Comprehension(list, k, allowed) ==
    IF k > Len(list) THEN <<>>
    ELSE (IF GetAccessLevel(list[k]) \in allowed THEN <<list[k]>> ELSE <<>>)
             \o Comprehension(list, k + 1, allowed)

filter_datasets_by_access(list, role) ==
    Comprehension(list, 1, allowed_access_levels(role))

InitFilter ==
    /\ fpc = "idle"
    /\ datasets = <<>>
    /\ user_role = "None"
    /\ visible = <<>>

FilterIdle == InitFilter

\* a call of DataGuardrails.filter_datasets_by_access
FilterCall ==
    /\ fpc = "idle"
    /\ datasets' \in DatasetLists
    /\ user_role' \in Roles
    /\ visible' = filter_datasets_by_access(datasets', user_role')
    /\ fpc' = "returned"
    /\ UNCHANGED nonFilterVars

\* the caller has read the list
FilterDone ==
    /\ fpc = "returned"
    /\ fpc' = "idle"
    /\ datasets' = <<>>
    /\ user_role' = "None"
    /\ visible' = <<>>
    /\ UNCHANGED nonFilterVars

\* ------------------------------------------------------------ search boundary
\* api/routers/search.py.  A dict is a record; a key the dict does not have
\* is the value "NoKey" (see GetAccessLevel).

\* the level the document store holds for a dataset; the record an exact-id
\* lookup finds is the one ExactIdSearch returns
StoredAccess(identifier) ==
    IF identifier \in DocIds THEN Catalogue[identifier].access_level
    ELSE Catalogue["A"].access_level

\* SearchResultItem(**kwargs): the model declares identifier, title, abstract,
\* score, keywords, from_semantic, from_keyword, semantic_rank, keyword_rank
\* and no access_level, so that keyword argument is not kept
SearchResultItem(kwargs) ==
    [identifier |-> kwargs.identifier,
     from_semantic |-> kwargs.from_semantic, from_keyword |-> kwargs.from_keyword,
     semantic_rank |-> kwargs.semantic_rank, keyword_rank |-> kwargs.keyword_rank]

\* r.model_dump(): the dict of the declared fields
model_dump(item) ==
    [identifier |-> item.identifier,
     from_semantic |-> item.from_semantic, from_keyword |-> item.from_keyword,
     semantic_rank |-> item.semantic_rank, keyword_rank |-> item.keyword_rank,
     access_level |-> "NoKey"]

\* the items _hybrid_search builds from HybridSearchResult objects
HybridItems(list) ==
    [k \in 1..Len(list) |->
        SearchResultItem([identifier |-> list[k].dataset_id,
                          from_semantic |-> list[k].from_semantic,
                          from_keyword |-> list[k].from_keyword,
                          semantic_rank |-> list[k].semantic_rank,
                          keyword_rank |-> list[k].keyword_rank,
                          access_level |-> list[k].access_level])]

\* search_semantic_only builds HybridSearchResult objects without
\* access_level (default "public"); _semantic_search makes the items
SemanticItems(found) ==
    [k \in 1..Len(found) |->
        SearchResultItem([identifier |-> found[k],
                          from_semantic |-> TRUE, from_keyword |-> FALSE,
                          semantic_rank |-> k, keyword_rank |-> 0,
                          access_level |-> "public"])]

\* _keyword_search makes the items from the datasets of repository.search
KeywordItems(found) ==
    [k \in 1..Len(found) |->
        SearchResultItem([identifier |-> found[k],
                          from_semantic |-> FALSE, from_keyword |-> TRUE,
                          semantic_rank |-> 0, keyword_rank |-> k,
                          access_level |-> Catalogue[found[k]].access_level])]

\* lines 57-61: filter the dumped items and build the items again
Guarded(items, role) ==
    LET dumped == [k \in 1..Len(items) |-> model_dump(items[k])]
        filtered == filter_datasets_by_access(dumped, role)
    IN [k \in 1..Len(filtered) |-> SearchResultItem(filtered[k])]

InitApi ==
    /\ bpc = "idle"
    /\ search_mode = "none"
    /\ current_role = "None"
    /\ response_results = <<>>
    /\ response_total = 0

ApiIdle == InitApi

\* search_datasets in hybrid mode, after service.search (and, with
\* advanced, pipeline.search) returned
ApiHybrid ==
    /\ bpc = "idle"
    /\ spc = "returned"
    /\ apc \in {"idle", "returned"}
    /\ search_mode' = "hybrid"
    /\ current_role' \in Roles
    /\ response_results' =
          Guarded(HybridItems(IF apc = "returned" THEN adv_results ELSE results),
                  current_role')
    /\ response_total' = Len(response_results')
    /\ bpc' = "responded"
    /\ UNCHANGED nonApiVars

\* search_datasets with mode = "semantic"
ApiSemantic ==
    /\ bpc = "idle"
    /\ spc = "idle"
    /\ search_mode' = "semantic"
    /\ current_role' \in Roles
    /\ \E found \in ResultLists :
          response_results' = Guarded(SemanticItems(found), current_role')
    /\ response_total' = Len(response_results')
    /\ bpc' = "responded"
    /\ UNCHANGED nonApiVars

\* search_datasets with mode = "keyword", or without a hybrid service
ApiKeyword ==
    /\ bpc = "idle"
    /\ spc = "idle"
    /\ search_mode' = "keyword"
    /\ current_role' \in Roles
    /\ \E found \in ResultLists :
          response_results' = Guarded(KeywordItems(found), current_role')
    /\ response_total' = Len(response_results')
    /\ bpc' = "responded"
    /\ UNCHANGED nonApiVars

\* the response has been sent
ApiDone ==
    /\ bpc = "responded"
    /\ bpc' = "idle"
    /\ search_mode' = "none"
    /\ current_role' = "None"
    /\ response_results' = <<>>
    /\ response_total' = 0
    /\ UNCHANGED nonApiVars

\* ------------------------------------------------------------ RAG context
\* etl/rag/context_builder.py.  A str is the sequence of its characters and
\* a relevance score is a whole number of percent.
MaxDocs == 2
MaxChars == 150
DefaultMaxChars == 12000

\* str(n) for a natural number
RECURSIVE ToStr(_)
ToStr(n) ==
    IF n < 10 THEN <<<<"0", "1", "2", "3", "4", "5", "6", "7", "8", "9">>[n + 1]>>
    ELSE ToStr(n \div 10) \o <<<<"0", "1", "2", "3", "4", "5", "6", "7", "8", "9">>[(n % 10) + 1]>>

\* sep.join(parts)
RECURSIVE Join(_, _)
Join(sep, parts) ==
    IF Len(parts) = 0 THEN <<>>
    ELSE IF Len(parts) = 1 THEN parts[1]
    ELSE parts[1] \o sep \o Join(sep, Tail(parts))

\* the retrieved document dicts: title, abstract, keywords, extracted_text
\* and relevance_score
ContextDocs ==
    [id : {"doc"},
     title : {<<"T">>, <<"T", "T">>},
     abstract : {<<>>, <<"B">>},
     keywords : {<<>>, << <<"k">>, <<"m">> >>},
     extracted_text : {<<>>, <<"E">>},
     relevance_score : {80, 100}]
ContextDocLists == UNION {[1..n -> ContextDocs] : n \in 0..MaxDocs}

\* the f-string of lines 12-19 for document number num
doc_context(num, doc) ==
    <<"\n", "-", "-", "-", " ", "D", "A", "T", "A", "S", "E", "T", " ">> \o ToStr(num) \o <<" ", "(", "R", "e", "l", "e", "v", "a", "n", "c", "e", ":", " ">> \o ToStr(doc.relevance_score)
    \o <<"%", ")", " ", "-", "-", "-", "\n">>
    \o <<"T", "num", "t", "l", "e", ":", " ">> \o doc.title \o <<"\n">>
    \o <<"A", "b", "s", "t", "r", "a", "c", "t", ":", " ">> \o doc.abstract \o <<"\n">>
    \o <<"K", "e", "y", "w", "o", "r", "d", "s", ":", " ">>
    \o (IF doc.keywords # <<>> THEN Join(<<",", " ">>, doc.keywords) ELSE <<"N", "o", "n", "e">>)
    \o <<"\n">>
    \o (IF doc.extracted_text # <<>>
        THEN <<"C", "o", "n", "t", "e", "n", "t", ":", " ">> \o Slice(doc.extracted_text, 500) \o <<".", ".", ".", "\n">>
        ELSE <<>>)

\* the loop of lines 11-25 from document number num on: context_parts
RECURSIVE context_parts(_, _, _, _, _)
context_parts(docs, num, parts, total_chars, cap) ==
    IF num > Len(docs) THEN parts
    ELSE LET dc == doc_context(num, docs[num]) IN
         IF total_chars + Len(dc) > cap THEN parts
         ELSE context_parts(docs, num + 1, Append(parts, dc), total_chars + Len(dc), cap)

build_context(docs, cap) == Join(<<"\n">>, context_parts(docs, 1, <<>>, 0, cap))

InitCtx ==
    /\ xpc = "idle"
    /\ retrieved_docs = <<>>
    /\ max_chars = DefaultMaxChars
    /\ context = <<>>

CtxIdle == InitCtx

\* a call of build_context
BuildContext ==
    /\ xpc = "idle"
    /\ retrieved_docs' \in ContextDocLists
    /\ max_chars' \in (MaxChars - 10)..MaxChars \cup {DefaultMaxChars}
    /\ context' = build_context(retrieved_docs', max_chars')
    /\ xpc' = "returned"
    /\ UNCHANGED nonCtxVars

\* the caller has read the string
BuildContextDone ==
    /\ xpc = "returned"
    /\ xpc' = "idle"
    /\ retrieved_docs' = <<>>
    /\ max_chars' = DefaultMaxChars
    /\ context' = <<>>
    /\ UNCHANGED nonCtxVars

\* -------------------------------------------------------------- RAG pipeline
\* etl/rag/pipeline.py, etl/rag/retriever.py
RagIds == {"P", "R", "S"}
MaxHits == 2
min_relevance == 30

\* the documents of the collection
RagStored ==
    [d \in RagIds |->
        [identifier |-> d, title |-> <<d>>, abstract |-> <<"B">>, keywords |-> <<>>,
         extracted_text |-> <<>>,
         access_level |-> CASE d = "P" -> "public"
                            [] d = "R" -> "restricted"
                            [] d = "S" -> "admin_only"]]

\* what collection.aggregate yields: distinct documents, each with its
\* vectorSearchScore in percent
Hits ==
    {s \in UNION {[1..n -> [doc : RagIds, score : {20, 80}]] : n \in 0..MaxHits} :
        \A j, k \in 1..Len(s) : s[j].doc = s[k].doc => j = k}

Questions == {<<"a">>, <<"?", "?">>, <<"H", "i", "!">>, <<"s", "o", "i", "l">>}

Alnum == {"a", "h", "i", "l", "o", "s"}

\* QueryClassifier.classify(query)["is_search"], for the questions above:
\* too short, only symbols, a greeting, or else a search
classify(q) ==
    LET query_clean == Strip(q, {" "})
        query_lower == Lower(query_clean)
    IN IF Len(query_clean) < 2 THEN FALSE
       ELSE IF \A k \in 1..Len(query_lower) : query_lower[k] \notin Alnum THEN FALSE
       ELSE IF RStrip(query_lower, {" ", "!", "?", ",", ".", ":"})
                   \in {<<"h", "i">>, <<"h", "e", "l", "l", "o">>, <<"h", "e", "y">>} THEN FALSE
       ELSE TRUE

\* DatasetRetriever.retrieve: the projected documents whose score reaches
\* min_score, as dicts with the keys id, title, abstract, keywords,
\* extracted_text and relevance_score ("NoKey": the dict has no access_level)
retrieve(hits, min_score) ==
    LET kept == SelectSeq(hits, LAMBDA h : h.score >= min_score)
    IN [k \in 1..Len(kept) |->
           [id |-> RagStored[kept[k].doc].identifier,
            title |-> RagStored[kept[k].doc].title,
            abstract |-> Slice(RagStored[kept[k].doc].abstract, 1000),
            keywords |-> RagStored[kept[k].doc].keywords,
            extracted_text |-> Slice(RagStored[kept[k].doc].extracted_text, 2000),
            relevance_score |-> kept[k].score,
            access_level |-> "NoKey"]]

\* RAGGuardrails.filter_context_by_access
filter_context_by_access(docs, role) == filter_datasets_by_access(docs, role)

InitRag ==
    /\ gpc = "idle"
    /\ question = <<>>
    /\ rag_role = "None"
    /\ rag_retrieved = <<>>
    /\ rag_context = <<>>
    /\ rag_context_ids = <<>>
    /\ rag_sources = <<>>

RagIdle == InitRag

\* query is called; a question that is no search gets the canned answer
RagQuery ==
    /\ gpc = "idle"
    /\ question' \in Questions
    /\ rag_role' \in Roles
    /\ gpc' = IF classify(question') THEN "classified" ELSE "answered"
    /\ UNCHANGED <<nonRagVars, rag_retrieved, rag_context, rag_context_ids, rag_sources>>

\* step 2: await self.retriever.retrieve(question, top_k, min_relevance)
RagRetrieve ==
    /\ gpc = "classified"
    /\ \E hits \in Hits : rag_retrieved' = retrieve(hits, min_relevance)
    /\ gpc' = "retrieved"
    /\ UNCHANGED <<nonRagVars, question, rag_role, rag_context, rag_context_ids,
                   rag_sources>>

\* steps 3 to 6: access filter, context, answer and sources
RagAnswer ==
    /\ gpc = "retrieved"
    /\ rag_retrieved' = filter_context_by_access(rag_retrieved, rag_role)
    /\ IF rag_retrieved' = <<>>
       THEN /\ rag_context' = <<>>
            /\ rag_context_ids' = <<>>
            /\ rag_sources' = <<>>
       ELSE /\ rag_context' = build_context(rag_retrieved', DefaultMaxChars)
            /\ rag_context_ids' =
                  [k \in 1..Len(context_parts(rag_retrieved', 1, <<>>, 0, DefaultMaxChars))
                      |-> rag_retrieved'[k].id]
            /\ rag_sources' = [k \in 1..Len(rag_retrieved') |-> rag_retrieved'[k].id]
    /\ gpc' = "answered"
    /\ UNCHANGED <<nonRagVars, question, rag_role>>

\* the caller has read the answer
RagDone ==
    /\ gpc = "answered"
    /\ gpc' = "idle"
    /\ question' = <<>>
    /\ rag_role' = "None"
    /\ rag_retrieved' = <<>>
    /\ rag_context' = <<>>
    /\ rag_context_ids' = <<>>
    /\ rag_sources' = <<>>
    /\ UNCHANGED nonRagVars

\* ------------------------------------------------------ default instances
\* get_default_factory (etl/resources/factory.py), get_default_registry
\* (etl/parsers/registry.py), get_session_factory (etl/repository/session.py):
\* the same three statements on a module global, run by threads; a thread
\* switch can fall between any two of them.
Threads == {1, 2}
Accessors == {"get_default_factory", "get_default_registry", "get_session_factory"}

InitSingle ==
    /\ default_instance = [a \in Accessors |-> 0]
    /\ constructed = [a \in Accessors |-> 0]
    /\ spos = [t \in Threads |-> "idle"]
    /\ accessor = [t \in Threads |-> "none"]
    /\ made = [t \in Threads |-> 0]
    /\ got = [t \in Threads |-> 0]

SingleIdle == InitSingle

\* a thread calls an accessor
AccessorCall(t) ==
    /\ spos[t] = "idle"
    /\ \E a \in Accessors : accessor' = [accessor EXCEPT ![t] = a]
    /\ spos' = [spos EXCEPT ![t] = "check"]
    /\ got' = [got EXCEPT ![t] = 0]
    /\ UNCHANGED <<nonSingleVars, default_instance, constructed, made>>

\* if _default is None:
AccessorCheck(t) ==
    /\ spos[t] = "check"
    /\ spos' = [spos EXCEPT ![t] =
                   IF default_instance[accessor[t]] = 0 THEN "construct" ELSE "return"]
    /\ UNCHANGED <<nonSingleVars, default_instance, constructed, accessor, made, got>>

\* the constructor call on the right of the assignment
AccessorConstruct(t) ==
    /\ spos[t] = "construct"
    /\ constructed' = [constructed EXCEPT ![accessor[t]] = @ + 1]
    /\ made' = [made EXCEPT ![t] = constructed'[accessor[t]]]
    /\ spos' = [spos EXCEPT ![t] = "assign"]
    /\ UNCHANGED <<nonSingleVars, default_instance, accessor, got>>

\* _default = <the new instance>
AccessorAssign(t) ==
    /\ spos[t] = "assign"
    /\ default_instance' = [default_instance EXCEPT ![accessor[t]] = made[t]]
    /\ made' = [made EXCEPT ![t] = 0]
    /\ spos' = [spos EXCEPT ![t] = "return"]
    /\ UNCHANGED <<nonSingleVars, constructed, accessor, got>>

\* return _default
AccessorReturn(t) ==
    /\ spos[t] = "return"
    /\ got' = [got EXCEPT ![t] = default_instance[accessor[t]]]
    /\ spos' = [spos EXCEPT ![t] = "idle"]
    /\ UNCHANGED <<nonSingleVars, default_instance, constructed, accessor, made>>

\* ------------------------------------------- pipeline over the repository
\* _commit_batch with repository.save_many carried out by DatasetRepository
\* (etl_pipeline.py 349-381 after dataset_repository.py 324-356): the batch
\* is the entities list of the save_many call that has just returned, and
\* run extends result.successful with the stored datasets.  The batches of
\* a run hold distinct datasets.
PipeCommitBatch ==
    /\ rpc = "returned"
    /\ entities # <<>>
    /\ \A j, k \in 1..Len(entities) :
           entities[j].identifier = entities[k].identifier => j = k
    /\ \A k \in 1..Len(entities) :
           entities[k].identifier \notin Range(successful) \cup storeFailed
    /\ LET ids == [k \in 1..Len(entities) |-> entities[k].identifier]
           SF == {id \in Range(ids) : id \in Range(bulk_failed)}
           stored == SelectSeq(bulk_succeeded, LAMBDA id : id \in Range(ids))
       IN /\ obj' = CommitObjs(obj, ids, SF)
          /\ successful' = successful \o stored
          /\ storeFailed' = storeFailed \cup SF
          /\ saveCalls' = Append(saveCalls, ids)
    /\ batches_committed' = batches_committed + 1
    /\ rpc' = "idle"
    /\ entities' = <<>>
    /\ rpos' = 1
    /\ bulk_succeeded' = <<>>
    /\ bulk_failed' = <<>>
    /\ db0' = db
    /\ UNCHANGED <<cacheVars, httpVars, clientVars, searchVars, advVars, filterVars,
                   apiVars, ctxVars, ragVars, singleVars, multiVars>>
    /\ UNCHANGED <<resumable, stop_on_error, batch_size, pc, runs, input, dataset_ids,
                   fetch_map, i, failed, batch, fetchCalls, cpBefore, fileBefore,
                   checkpoint, file, loaded, events>>
    /\ UNCHANGED <<db, session_rows, last_saved>>

\* -------------------------------------- two operations on one client
\* etl/client/__init__.py: two fetch_all or streaming operations running on
\* the same CEHCatalogueClient.  Each operation assigns a new Semaphore to
\* self._semaphore (lines 257, 367) and its tasks read self._semaphore when
\* they reach "async with self._semaphore" (lines 271, 370).
Operations == {1, 2}
MaxTasks == 2

InitMulti ==
    /\ ocall = [c \in Operations |-> "idle"]
    /\ ntasks = [c \in Operations |-> 0]
    /\ otask = [c \in Operations |-> [j \in 1..MaxTasks |-> "none"]]
    /\ semaphores = <<>>
    /\ semaphore_waiters = <<>>
    /\ client_semaphore = 0
    /\ task_semaphore = [c \in Operations |-> [j \in 1..MaxTasks |-> 0]]

MultiIdle == InitMulti

\* fetch_all or _stream_fetch is called: self._semaphore =
\* asyncio.Semaphore(self._concurrency), one task per id
OperationCall(c) ==
    /\ ocall[c] = "idle"
    /\ \E n \in 1..MaxTasks :
          /\ ntasks' = [ntasks EXCEPT ![c] = n]
          /\ otask' = [otask EXCEPT ![c] = [j \in 1..MaxTasks |->
                                               IF j <= n THEN "new" ELSE "none"]]
    /\ semaphores' = Append(semaphores, concurrency)
    /\ semaphore_waiters' = Append(semaphore_waiters, <<>>)
    /\ client_semaphore' = Len(semaphores')
    /\ ocall' = [ocall EXCEPT ![c] = "running"]
    /\ UNCHANGED <<nonMultiVars, task_semaphore>>

\* the tasks of an operation start in the order of its ids: task j evaluates
\* self._semaphore and enters fetch_dataset if that Semaphore is free, or
\* queues up on it
OperationTaskStart(c, j) ==
    /\ otask[c][j] = "new"
    /\ \A k \in 1..(j - 1) : otask[c][k] # "new"
    /\ task_semaphore' = [task_semaphore EXCEPT ![c][j] = client_semaphore]
    /\ IF semaphores[client_semaphore] > 0
       THEN /\ semaphores' = [semaphores EXCEPT ![client_semaphore] = @ - 1]
            /\ otask' = [otask EXCEPT ![c][j] = "fetching"]
            /\ UNCHANGED semaphore_waiters
       ELSE /\ semaphore_waiters' =
                  [semaphore_waiters EXCEPT ![client_semaphore] = Append(@, <<c, j>>)]
            /\ otask' = [otask EXCEPT ![c][j] = "waiting"]
            /\ UNCHANGED semaphores
    /\ UNCHANGED <<nonMultiVars, ocall, ntasks, client_semaphore>>

\* fetch_dataset returns; the task sleeps request_delay inside the semaphore
OperationFetched(c, j) ==
    /\ otask[c][j] = "fetching"
    /\ otask' = [otask EXCEPT ![c][j] = "sleeping"]
    /\ UNCHANGED <<nonMultiVars, ocall, ntasks, semaphores, semaphore_waiters,
                   client_semaphore, task_semaphore>>

\* the task leaves "async with": its Semaphore goes to the longest waiting
\* task or becomes free
OperationRelease(c, j) ==
    /\ otask[c][j] = "sleeping"
    /\ LET s == task_semaphore[c][j] IN
        IF semaphore_waiters[s] = <<>>
        THEN /\ semaphores' = [semaphores EXCEPT ![s] = @ + 1]
             /\ otask' = [otask EXCEPT ![c][j] = "finished"]
             /\ UNCHANGED semaphore_waiters
        ELSE LET w == Head(semaphore_waiters[s]) IN
             /\ otask' = [[otask EXCEPT ![c][j] = "finished"]
                             EXCEPT ![w[1]][w[2]] = "fetching"]
             /\ semaphore_waiters' = [semaphore_waiters EXCEPT ![s] = Tail(@)]
             /\ UNCHANGED semaphores
    /\ UNCHANGED <<nonMultiVars, ocall, ntasks, client_semaphore, task_semaphore>>

\* gather returns / the stream is exhausted
OperationReturn(c) ==
    /\ ocall[c] = "running"
    /\ \A j \in 1..ntasks[c] : otask[c][j] = "finished"
    /\ ocall' = [ocall EXCEPT ![c] = "returned"]
    /\ UNCHANGED <<nonMultiVars, ntasks, otask, semaphores, semaphore_waiters,
                   client_semaphore, task_semaphore>>

Init == InitPipe /\ InitCache /\ ttl = NoTTL /\ srcBody = 1 /\ HttpIdle /\ ClientIdle /\ RepoIdle /\ SearchIdle /\ AdvIdle /\ FilterIdle /\ ApiIdle /\ CtxIdle /\ RagIdle /\ SingleIdle /\ MultiIdle


Next ==
    \/ RunStart
    \/ FetchAll
    \/ SkipUnfetched
    \/ ParseFail
    \/ ParseOk
    \/ CommitFull
    \/ SaveManyRaises
    \/ Flush
    \/ SaveOpen
    \/ SaveWrite
    \/ SaveWriteFail
    \/ Cancel
    \/ Crash
    \/ Restart
    \/ reset_checkpoint

Spec == Init /\ [][Next]_vars

\* the cached resource used by one caller at a time
PipeIdle == InitPipe /\ resumable /\ ~stop_on_error /\ batch_size = 1

InitCached ==
    /\ PipeIdle
    /\ InitCache
    /\ HttpIdle
    /\ ClientIdle
    /\ RepoIdle
    /\ SearchIdle
    /\ AdvIdle
    /\ FilterIdle
    /\ ApiIdle
    /\ CtxIdle
    /\ RagIdle
    /\ SingleIdle
    /\ MultiIdle

NextCached ==
    \/ FetchStart(1)
    \/ FetchFreshStart(1)
    \/ ReadMeta(1)
    \/ ReadContent(1)
    \/ WrappedFetch(1)
    \/ OpenContent(1)
    \/ WriteContent(1)
    \/ OpenMeta(1)
    \/ WriteMeta(1)
    \/ InvalidateContent(1)
    \/ InvalidateMeta(1)
    \/ Tick
    \/ SourceChange

SpecCached == InitCached /\ [][NextCached]_vars

\* the cached resource used by one caller while another caller invalidates
\* the same identifier
NextCachedInv ==
    \/ NextCached
    \/ InvalidateContent(2)
    \/ InvalidateMeta(2)

SpecCachedInv == InitCached /\ [][NextCachedInv]_vars

\* the cached resource used by two concurrent callers (two coroutines of one
\* process or two processes sharing the cache directory)
NextCachedConc ==
    \/ \E p \in Callers :
          \/ FetchStart(p)
          \/ FetchFreshStart(p)
          \/ ReadMeta(p)
          \/ ReadContent(p)
          \/ WrappedFetch(p)
          \/ OpenContent(p)
          \/ WriteContent(p)
          \/ OpenMeta(p)
          \/ WriteMeta(p)
          \/ InvalidateContent(p)
          \/ InvalidateMeta(p)
    \/ Tick
    \/ SourceChange

SpecCachedConc == InitCached /\ [][NextCachedConc]_vars

\* one HTTP resource fetched repeatedly
InitHttpOnly ==
    /\ PipeIdle
    /\ InitCache /\ ttl = NoTTL /\ srcBody = 1
    /\ InitHttp
    /\ ClientIdle
    /\ RepoIdle
    /\ SearchIdle
    /\ AdvIdle
    /\ FilterIdle
    /\ ApiIdle
    /\ CtxIdle
    /\ RagIdle
    /\ SingleIdle
    /\ MultiIdle

NextHttp ==
    \/ HttpFetchStart
    \/ SingleFetch
    \/ Backoff
    \/ Exhausted
    \/ HttpReturn

SpecHttp == InitHttpOnly /\ [][NextHttp]_vars

\* one operation of the catalogue client
InitClientOnly ==
    /\ PipeIdle
    /\ InitCache /\ ttl = NoTTL /\ srcBody = 1
    /\ HttpIdle
    /\ InitClient
    /\ RepoIdle
    /\ SearchIdle
    /\ AdvIdle
    /\ FilterIdle
    /\ ApiIdle
    /\ CtxIdle
    /\ RagIdle
    /\ SingleIdle
    /\ MultiIdle

NextClient ==
    \/ ClientCall
    \/ TaskStart
    \/ \E id \in IDs : FetchDataset(id)
    \/ \E id \in IDs : SleepDone(id)
    \/ ClientTick
    \/ GatherReturns
    \/ WaitReturns
    \/ Yield

SpecClient == InitClientOnly /\ [][NextClient]_vars

\* a sequence of DatasetRepository.save calls
InitRepoOnly ==
    /\ PipeIdle
    /\ InitCache /\ ttl = NoTTL /\ srcBody = 1
    /\ HttpIdle
    /\ ClientIdle
    /\ InitRepo
    /\ SearchIdle
    /\ AdvIdle
    /\ FilterIdle
    /\ ApiIdle
    /\ CtxIdle
    /\ RagIdle
    /\ SingleIdle
    /\ MultiIdle

NextSave == RepoSave

SpecSave == InitRepoOnly /\ [][NextSave]_vars

\* save_many calls on a table filled by save and save_many
NextSaveMany ==
    \/ RepoSave
    \/ SaveManyCall
    \/ SaveManyEntity
    \/ SaveManyReturn
    \/ SaveManyDone

SpecSaveMany == InitRepoOnly /\ [][NextSaveMany]_vars

\* searches on one HybridSearchService
InitSearchOnly ==
    /\ PipeIdle
    /\ InitCache /\ ttl = NoTTL /\ srcBody = 1
    /\ HttpIdle
    /\ ClientIdle
    /\ RepoIdle
    /\ InitSearch
    /\ AdvIdle
    /\ FilterIdle
    /\ ApiIdle
    /\ CtxIdle
    /\ RagIdle
    /\ SingleIdle
    /\ MultiIdle

NextSearch ==
    \/ SearchCall
    \/ ExactIdSearch
    \/ ExactTitleSearch
    \/ RunSearches
    \/ MergeRRF
    \/ BoostExactMatches
    \/ SortAndReturn
    \/ SearchDone

SpecSearch == InitSearchOnly /\ [][NextSearch]_vars

\* hybrid searches followed by the advanced pipeline
InitAdvOnly ==
    /\ PipeIdle
    /\ InitCache /\ ttl = NoTTL /\ srcBody = 1
    /\ HttpIdle
    /\ ClientIdle
    /\ RepoIdle
    /\ SearchIdle
    /\ InitAdv
    /\ use_reranker
    /\ FilterIdle
    /\ ApiIdle
    /\ CtxIdle
    /\ RagIdle
    /\ SingleIdle
    /\ MultiIdle

NextAdvanced ==
    \/ SearchCall
    \/ ExactIdSearch
    \/ ExactTitleSearch
    \/ RunSearches
    \/ MergeRRF
    \/ BoostExactMatches
    \/ SortAndReturn
    \/ SearchDone
    \/ AdvancedRescore
    \/ AdvancedRerank
    \/ AdvancedDone

SpecAdvanced == InitAdvOnly /\ [][NextAdvanced]_vars

\* calls of the access filter
InitFilterOnly ==
    /\ PipeIdle
    /\ InitCache /\ ttl = NoTTL /\ srcBody = 1
    /\ HttpIdle
    /\ ClientIdle
    /\ RepoIdle
    /\ SearchIdle
    /\ AdvIdle
    /\ InitFilter
    /\ ApiIdle
    /\ CtxIdle
    /\ RagIdle
    /\ SingleIdle
    /\ MultiIdle

NextFilter ==
    \/ FilterCall
    \/ FilterDone

SpecFilter == InitFilterOnly /\ [][NextFilter]_vars

\* requests to GET /search
InitApiOnly ==
    /\ PipeIdle
    /\ InitCache /\ ttl = NoTTL /\ srcBody = 1
    /\ HttpIdle
    /\ ClientIdle
    /\ RepoIdle
    /\ SearchIdle
    /\ AdvIdle
    /\ FilterIdle
    /\ InitApi
    /\ CtxIdle
    /\ RagIdle
    /\ SingleIdle
    /\ MultiIdle

NextApi ==
    \/ SearchCall
    \/ ExactIdSearch
    \/ ExactTitleSearch
    \/ RunSearches
    \/ MergeRRF
    \/ BoostExactMatches
    \/ SortAndReturn
    \/ SearchDone
    \/ AdvancedRescore
    \/ AdvancedRerank
    \/ AdvancedDone
    \/ ApiHybrid
    \/ ApiSemantic
    \/ ApiKeyword
    \/ ApiDone

SpecApi == InitApiOnly /\ [][NextApi]_vars

\* calls of build_context
InitCtxOnly ==
    /\ PipeIdle
    /\ InitCache /\ ttl = NoTTL /\ srcBody = 1
    /\ HttpIdle
    /\ ClientIdle
    /\ RepoIdle
    /\ SearchIdle
    /\ AdvIdle
    /\ FilterIdle
    /\ ApiIdle
    /\ InitCtx
    /\ RagIdle
    /\ SingleIdle
    /\ MultiIdle

NextCtx ==
    \/ BuildContext
    \/ BuildContextDone

SpecCtx == InitCtxOnly /\ [][NextCtx]_vars

\* RAG queries
InitRagOnly ==
    /\ PipeIdle
    /\ InitCache /\ ttl = NoTTL /\ srcBody = 1
    /\ HttpIdle
    /\ ClientIdle
    /\ RepoIdle
    /\ SearchIdle
    /\ AdvIdle
    /\ FilterIdle
    /\ ApiIdle
    /\ CtxIdle
    /\ InitRag
    /\ SingleIdle
    /\ MultiIdle

NextRag ==
    \/ RagQuery
    \/ RagRetrieve
    \/ RagAnswer
    \/ RagDone

SpecRag == InitRagOnly /\ [][NextRag]_vars

\* threads calling the accessors of the default instances
InitSingleOnly ==
    /\ PipeIdle
    /\ InitCache /\ ttl = NoTTL /\ srcBody = 1
    /\ HttpIdle
    /\ ClientIdle
    /\ RepoIdle
    /\ SearchIdle
    /\ AdvIdle
    /\ FilterIdle
    /\ ApiIdle
    /\ CtxIdle
    /\ RagIdle
    /\ InitSingle
    /\ MultiIdle

NextSingle ==
    \E t \in Threads :
        \/ AccessorCall(t)
        \/ AccessorCheck(t)
        \/ AccessorConstruct(t)
        \/ AccessorAssign(t)
        \/ AccessorReturn(t)

SpecSingle == InitSingleOnly /\ [][NextSingle]_vars

\* the commits of one pipeline run on a table filled by save and save_many
NextPipeStore ==
    \/ RepoSave
    \/ SaveManyCall
    \/ SaveManyEntity
    \/ SaveManyReturn
    \/ SaveManyDone
    \/ PipeCommitBatch

SpecPipeStore == InitRepoOnly /\ [][NextPipeStore]_vars

\* two operations on one client
InitMultiOnly ==
    /\ PipeIdle
    /\ InitCache /\ ttl = NoTTL /\ srcBody = 1
    /\ HttpIdle
    /\ InitClient
    /\ request_delay = 0
    /\ RepoIdle
    /\ SearchIdle
    /\ AdvIdle
    /\ FilterIdle
    /\ ApiIdle
    /\ CtxIdle
    /\ RagIdle
    /\ SingleIdle
    /\ InitMulti

NextMulti ==
    \/ \E c \in Operations : OperationCall(c)
    \/ \E c \in Operations, j \in 1..MaxTasks : OperationTaskStart(c, j)
    \/ \E c \in Operations, j \in 1..MaxTasks : OperationFetched(c, j)
    \/ \E c \in Operations, j \in 1..MaxTasks : OperationRelease(c, j)
    \/ \E c \in Operations : OperationReturn(c)

SpecMulti == InitMultiOnly /\ [][NextMulti]_vars

\* ------------------------------------------------------------- properties
\* ETLPipeline.run has returned its PipelineResult
RunReturned == pc \in {"returned", "writing", "done"} /\ fetchCalls # <<>>

ParseFailedIds == {id \in IDs : obj[id].error_stage = PARSE}

\* position of an id in a list of distinct ids
Pos(s, id) == CHOOSE k \in 1..Len(s) : s[k] = id

\* C1: a run over [x, y, z] in which only the fetch of y fails and every
\* other step succeeds returns successful = [x, z], failed = [y] with
\* error_stage FETCH, failures_by_stage = {fetch: 1} and success_rate = 2/3.
C1_Scenario ==
    /\ RunReturned
    /\ dataset_ids = <<"x", "y", "z">>
    /\ fetch_map = {"x", "z"}
    /\ ParseFailedIds = {}
    /\ storeFailed = {}

C1_PartialFailure ==
    C1_Scenario =>
        /\ successful = <<"x", "z">>
        /\ failed = <<"y">>
        /\ obj["y"].error_stage = FETCH
        /\ ~obj["y"].success
        /\ failures_by_stage = [s \in {FETCH} |-> 1]
        /\ success_rate[1] * 3 = success_rate[2] * 2

C1_Witness == C1_Scenario /\ pc = "done" /\ batches_committed >= 1

\* C2: every dataset that save_many reports as failed is in result.failed
\* with error_stage STORE and the store error message.
C2_StoreFailuresReported ==
    RunReturned =>
        \A id \in storeFailed :
            /\ id \in Range(failed)
            /\ obj[id].error_stage = STORE
            /\ obj[id].error_message = "store_error"

FailureSeen == \E id \in IDs : obj[id].error_stage \in {PARSE, STORE}

C4_NoSaveAfterFailure ==
    [][(stop_on_error /\ FailureSeen) => Len(saveCalls') <= Len(saveCalls)]_vars

\* C5: every dataset moves through FETCH, PARSE, STORE, COMPLETE in that
\* order without skipping a stage or going back, and a dataset that passes
\* every stage ends with stage COMPLETE.
Rank(st) == CASE st = "none" -> 0 [] st = FETCH -> 1 [] st = PARSE -> 2
              [] st = STORE -> 3 [] st = COMPLETE -> 4

C5_StageOrder ==
    [][runs' = runs =>
        /\ \A id \in IDs :
              /\ Rank(obj'[id].stage_completed) >= Rank(obj[id].stage_completed)
              /\ \/ Rank(obj'[id].stage_completed) - Rank(obj[id].stage_completed) <= 1
                 \/ obj[id] = NoObj /\ obj'[id].stage_completed = PARSE
        /\ (pc' = "done" =>
              \A id \in Range(successful') : obj'[id].stage_completed = COMPLETE)]_vars

\* C6: a resumable run fetches and processes exactly the input ids that are
\* in neither processed_ids nor failed_ids of the checkpoint, in input
\* order; an id already in the checkpoint is not fetched again.
InCheckpoint(cp) == cp.processed_ids \cup cp.failed_ids

C6_FetchesExactlyRemaining ==
    resumable =>
        /\ Len(fetchCalls) <= 1
        /\ (pc \in {"loop", "commit", "flush", "returned", "writing"}) => Len(fetchCalls) = 1
        /\ (pc = "done" /\ Range(input) \ InCheckpoint(cpBefore) # {})
              => Len(fetchCalls) = 1
        /\ \A c \in 1..Len(fetchCalls) :
              /\ Range(fetchCalls[c]) = Range(input) \ InCheckpoint(cpBefore)
              /\ Len(fetchCalls[c]) = Cardinality(Range(fetchCalls[c]))
              /\ \A a, b \in 1..Len(fetchCalls[c]) :
                    a < b => Pos(input, fetchCalls[c][a]) < Pos(input, fetchCalls[c][b])
              /\ \A k \in 1..Len(fetchCalls[c]) :
                    /\ fetchCalls[c][k] \notin cpBefore.processed_ids
                    /\ fetchCalls[c][k] \notin cpBefore.failed_ids
        /\ \A id \in IDs : obj[id] # NoObj => id \in Range(input) \ InCheckpoint(cpBefore)

C6_Witness ==
    /\ resumable
    /\ runs = 2
    /\ pc = "done"
    /\ cpBefore.failed_ids # {}
    /\ cpBefore.processed_ids # {}
    /\ InCheckpoint(cpBefore) \subseteq Range(input)
    /\ Len(fetchCalls) = 1
    /\ Len(fetchCalls[1]) = 1

\* C7: after a resumable run returns, the saved checkpoint holds every id it
\* held before plus every attempted id, in processed_ids if it succeeded
\* and in failed_ids if it failed at FETCH, PARSE or STORE.
C7_CheckpointCoversRun ==
    (resumable /\ pc = "done" /\ dataset_ids # <<>>) =>
        /\ file.state = "complete"
        /\ cpBefore.processed_ids \subseteq file.processed_ids
        /\ cpBefore.failed_ids \subseteq file.failed_ids
        /\ \A id \in Range(dataset_ids) :
              /\ id \in Range(successful) => id \in file.processed_ids
              /\ (id \in fetch_map /\ obj[id].error_stage = "none" /\ obj[id] # NoObj)
                    => id \in file.processed_ids
              /\ obj[id].error_stage \in {FETCH, PARSE, STORE} => id \in file.failed_ids

\* C8: when a resumable run is cancelled or ends with an exception, the
\* checkpoint file is exactly as it was before the run.
C8_FileUnchangedOnFailure ==
    (resumable /\ pc \in {"cancelled", "raised"}) => file = fileBefore

\* C9: at every instant the checkpoint file holds the complete previous
\* checkpoint or the complete new one, never a partial document.
C9_AtomicSave ==
    /\ file.state # "partial"
    /\ (resumable /\ pc \in {"fetch", "loop", "commit", "flush", "returned", "writing", "done",
                             "raised", "cancelled", "crashed"})
          => (file = fileBefore \/ file = Doc(checkpoint))

\* C10: for a cached resource whose source answers, a fetch made while no
\* entry has been stored returns from_cache = false, and every fetch made
\* after an entry was stored returns from_cache = true, until the TTL
\* expires or invalidate is called.
FetchReturns(p) == cpc[p] # "idle" /\ cpc'[p] = "idle" /\ op[p] = "fetch"

WithinTTL == lastStored # NoTime /\ (ttl = NoTTL \/ clock - lastStored <= ttl)

C10_MissOnceThenHits ==
    [][FetchReturns(1) =>
        /\ (lastStored = NoTime => ~res'[1].from_cache)
        /\ (lastStored = NoTime /\ res'[1].success => lastStored' # NoTime)
        /\ (WithinTTL => res'[1].success /\ res'[1].from_cache)]_vars

C10_Witness ==
    /\ cpc[1] = "idle"
    /\ op[1] = "fetch"
    /\ res[1].from_cache
    /\ ttl = 1
    /\ clock - lastStored = ttl

\* C11: a fetch returns the cached content with from_cache = true exactly
\* when the .meta file is there when it is read, the .content file is there
\* when it is read and no TTL is configured or now - cached_at <= TTL; in
\* every other case it calls the wrapped resource and, if that call
\* succeeds, writes both files before it returns.
ReadsMeta(p) == cpc[p] = "read_meta" /\ cpc'[p] # "read_meta"

ReadsContent(p) == cpc[p] = "read_content" /\ cpc'[p] # "read_content"

Fresh(cached_at) == ttl = NoTTL \/ clock - cached_at <= ttl

C11_HitExactlyWhenUsable ==
    [][/\ (ReadsMeta(1) /\ metaFile.state = "absent") => cpc'[1] = "delegate"
       /\ (ReadsMeta(1) /\ metaFile.state # "absent") => cpc'[1] = "read_content"
       /\ ReadsContent(1) =>
             IF contentFile.state # "absent" /\ Fresh(res[1].cached_at)
             THEN /\ cpc'[1] = "idle"
                  /\ res'[1].success /\ res'[1].from_cache
                  /\ res'[1].body = contentFile.body
             ELSE cpc'[1] = "delegate"
       /\ FetchReturns(1) =>
             /\ res'[1].from_cache => cpc[1] = "read_content"
             /\ (~res'[1].from_cache /\ res'[1].success) =>
                    /\ wrote'[1] = {"content", "meta"}
                    /\ metaFile' = MetaOf(res'[1].cached_at)
             /\ ~res'[1].success => wrote'[1] = {}]_vars

\* a fetch has found the .meta file without the .content file and is about
\* to call the wrapped resource
C11_Witness ==
    /\ op[1] = "fetch"
    /\ cpc[1] = "delegate"
    /\ metaFile.state = "complete"
    /\ Fresh(metaFile.cached_at)
    /\ contentFile.state = "absent"
    /\ cpc[2] = "remove_meta"

\* C12: while a cache entry is being written, a concurrent reader of the
\* same identifier is never handed a partially written .content file, nor
\* the .content of a write whose .meta is not written yet (a half-written
\* pair).
HalfWritten == \E q \in Callers : cpc[q] \in {"open_meta", "write_meta"} /\ by.content = q

C12_ReaderSeesWholeEntry ==
    [][\A p \in Callers :
          (ReadsContent(p) /\ cpc'[p] = "idle") =>
              /\ contentFile.state = "complete"
              /\ ~HalfWritten]_vars

\* C13: when two fetches of the same identifier have both missed the cache
\* and both written, the cache holds one complete entry whose .content and
\* .meta come from the same write.
BothMissedAndWrote ==
    \A p \in Callers :
        /\ cpc[p] = "idle"
        /\ op[p] = "fetch"
        /\ res[p].success /\ ~res[p].from_cache
        /\ wrote[p] = {"content", "meta"}

C13_OneCompleteEntry ==
    BothMissedAndWrote =>
        /\ contentFile.state = "complete"
        /\ metaFile.state = "complete"
        /\ by.content = by.meta

\* C14 (as stated): fetch_fresh never serves from the cache and always
\* writes the outcome of its call of the wrapped resource to the cache.
FreshReturns(p) == cpc[p] # "idle" /\ cpc'[p] = "idle" /\ op[p] = "fetch_fresh"

C14_FreshAlwaysWrites ==
    [][FreshReturns(1) =>
          /\ ~res'[1].from_cache
          /\ wrote'[1] = {"content", "meta"}]_vars

\* C14 (amended): fetch_fresh never serves from the cache, it returns the
\* result of the wrapped resource; when that call succeeded it has written
\* the result to both files, when it failed it has written nothing.
C14_FreshWritesOnSuccess ==
    [][FreshReturns(1) =>
          /\ ~res'[1].from_cache
          /\ cpc[1] \in {"delegate", "write_meta"}
          /\ res'[1].success =>
                /\ wrote'[1] = {"content", "meta"}
                /\ contentFile' = ContentOf(res'[1].body)
                /\ metaFile' = MetaOf(res'[1].cached_at)
          /\ ~res'[1].success =>
                /\ wrote'[1] = {}
                /\ contentFile' = contentFile /\ metaFile' = metaFile]_vars

\* a fetch_fresh has returned a successful result after writing it to both files
C14_Witness ==
    /\ op[1] = "fetch_fresh"
    /\ cpc[1] = "idle"
    /\ res[1].success /\ ~res[1].from_cache
    /\ wrote[1] = {"content", "meta"}
    /\ ttl = NoTTL
    /\ clock > 0
    /\ lastStored = clock

\* C15: a request is followed by another request of the same fetch only when
\* it ended with a response whose status is in {408, 429, 500, 502, 503,
\* 504} or with a transport error (a client error or a timeout); after any
\* other response with status >= 400 and after any other kind of error no
\* further request is made.
Transient(o) ==
    \/ o.kind = "response" /\ o.status \in {408, 429, 500, 502, 503, 504}
    \/ o.kind \in {"ClientError", "TimeoutError"}

C15_RetryOnlyTransient ==
    \A k \in 1..Len(outcomes) : k < Len(outcomes) => Transient(outcomes[k])

\* C16: during a fetch_all or streaming operation the number of dataset
\* fetches in flight (tasks inside fetch_dataset) never exceeds concurrency.
InFlight == {id \in IDs : tpc[id] = "fetching"}

C16_AtMostConcurrencyInFlight == Cardinality(InFlight) <= concurrency

\* concurrency fetches are in flight and a further task waits for the
\* semaphore
C16_Witness ==
    /\ concurrency = 2
    /\ Cardinality(InFlight) = concurrency
    /\ waiters # <<>>

\* C17: between any two successive acquisitions of the semaphore at least
\* request_delay of wall time elapses.
C17_DelayBetweenAcquisitions ==
    \A k \in 1..Len(acquiredAt) :
        k < Len(acquiredAt) => acquiredAt[k + 1] - acquiredAt[k] >= request_delay

\* C18: when fetch_all has returned, every dataset of which one format
\* fetch failed has success = false and is in the failed list and not in
\* the successful list, whatever was fetched of its other formats.
C18_AnyFormatFailureFailsDataset ==
    (mode = "fetch_all" /\ cpos = "returned") =>
        \A id \in Range(requested) :
            tres[id].failed_format # "none" =>
                /\ ~tres[id].success
                /\ id \in Range(batch_failed)
                /\ id \notin Range(batch_successful)

\* a dataset whose JSON was fetched and whose XML fetch failed is in the
\* failed list
C18_Witness ==
    /\ mode = "fetch_all" /\ cpos = "returned"
    /\ \E id \in Range(batch_failed) :
          tres[id].json_content /\ tres[id].failed_format = XML

\* C20: with concurrency = 1 and request_delay > 0 the stream yields the
\* results in the order of the input id list.
C20_StreamKeepsInputOrder ==
    (mode = "stream" /\ concurrency = 1 /\ request_delay > 0) =>
        \A k \in 1..Len(yielded) : yielded[k] = requested[k]

\* C19: in the progress events a pipeline run emits, the event that reports
\* an id completed (success) or failed is preceded by a "fetching" event of
\* that id. A pipeline ProgressUpdate reports an outcome; the "fetching"
\* status exists only in the updates of the client, which the run does not
\* ask for.
StatusOf(e) == IF e.success THEN "completed" ELSE "failed"

C19_PipelineFetchingFirst ==
    \A k \in 1..Len(events) :
        StatusOf(events[k]) \in {"completed", "failed"} =>
            \E j \in 1..(k - 1) :
                /\ events[j].dataset_id = events[k].dataset_id
                /\ StatusOf(events[j]) = "fetching"

\* ids of the entities passed to save_many are pairwise distinct
DistinctEntities ==
    \A j, k \in 1..Len(entities) :
        entities[j].identifier = entities[k].identifier => j = k

\* C21: when save_many returns (entities with distinct ids), every entity's id
\* is listed as succeeded or as failed, the row of every id listed as
\* succeeded holds that entity's data, and the row of every other id is what
\* it was before the call
C21_SucceededExactlyPersisted ==
    (rpc = "returned" /\ DistinctEntities) =>
        \A k \in 1..Len(entities) :
            LET id == entities[k].identifier IN
                /\ id \in Range(bulk_succeeded) \cup Range(bulk_failed)
                /\ id \in Range(bulk_succeeded) => db[id] = domain_to_orm(entities[k])
                /\ id \notin Range(bulk_succeeded) => db[id] = db0[id]

\* C22: between calls get(id) returns, for every id ever saved, the data of
\* the most recent save(d) with that id (one row per identifier: db is keyed
\* by the unique identifier column)
C22_GetReturnsLatestSave ==
    \A id \in RepoIds :
        last_saved[id] # NoRow => get(id) = orm_to_domain(id, last_saved[id])

\* C23: a search whose query is a UUID never calls vector_store.search (nor
\* repository.search); when it has returned it has made exactly one
\* repository.get call and its response holds at most one result, marked
\* is_exact_match
C23_UuidQuerySkipsVectorStore ==
    (spc # "idle" /\ query = QUuid) =>
        /\ vector_calls = 0
        /\ search_calls = 0
        /\ spc = "returned" =>
            /\ get_calls = 1
            /\ Len(results) <= 1
            /\ \A k \in 1..Len(results) : results[k].is_exact_match

C23_Witness ==
    /\ spc = "returned"
    /\ query = QUuid
    /\ Len(results) = 1

\* position of dataset id d in a result list, 0 when it is not in it
RankIn(list, d) ==
    IF \E k \in 1..Len(list) : list[k] = d
    THEN CHOOSE k \in 1..Len(list) : list[k] = d
    ELSE 0

\* weight / (60 + rank) for a source in which the document has rank > 0
Contribution(weight, rank) ==
    IF rank = 0 THEN 0 ELSE (weight * ScoreUnit) \div (2 * (60 + rank))

\* C24: the list returned by _merge_rrf holds every dataset id of the two
\* inputs exactly once; its score is the sum over the sources holding it of
\* weight / (60 + rank), rank counted from 1; from_semantic, from_keyword,
\* semantic_rank and keyword_rank are the sources and ranks it appeared at
C24_MergeIsRRF ==
    spc \in {"merged", "boosted"} =>
        /\ {merged[k].dataset_id : k \in 1..Len(merged)}
               = Range(semantic_results) \cup Range(keyword_results)
        /\ \A j, k \in 1..Len(merged) :
               merged[j].dataset_id = merged[k].dataset_id => j = k
        /\ \A k \in 1..Len(merged) :
            LET r == merged[k]
                sr == RankIn(semantic_results, r.dataset_id)
                kr == RankIn(keyword_results, r.dataset_id)
            IN /\ r.hybrid_score = Contribution(semantic_w, sr) + Contribution(keyword_w, kr)
               /\ r.semantic_rank = sr
               /\ r.keyword_rank = kr
               /\ r.from_semantic = (sr > 0)
               /\ r.from_keyword = (kr > 0)

C24_Witness ==
    /\ spc = "merged"
    /\ Len(merged) = 3
    /\ \E k \in 1..3 : merged[k].from_semantic /\ merged[k].from_keyword
                         /\ merged[k].semantic_rank # merged[k].keyword_rank

\* the scenario of C25: semantic results [A, B], keyword results [B, C], both
\* weights 1.0, a query that boosts nothing, limit 3, search has returned
C25_Scenario ==
    /\ spc = "returned"
    /\ query = QThree
    /\ limit = 3
    /\ semantic_results = <<"A", "B">>
    /\ keyword_results = <<"B", "C">>
    /\ semantic_w = 2
    /\ keyword_w = 2

ScoreIn(list, d) == list[CHOOSE k \in 1..Len(list) : list[k].dataset_id = d].hybrid_score

\* C25 as stated: in the scenario the merged scores are A = 1/61,
\* B = 1/61 + 1/61, C = 1/62 and the results are ordered [B, A, C]
C25_ScoresAsStated ==
    C25_Scenario =>
        /\ ScoreIn(merged, "A") = ScoreUnit \div 61
        /\ ScoreIn(merged, "B") = (ScoreUnit \div 61) + (ScoreUnit \div 61)
        /\ ScoreIn(merged, "C") = ScoreUnit \div 62
        /\ [k \in 1..Len(results) |-> results[k].dataset_id] = <<"B", "A", "C">>

\* C25 amended: in the scenario the merged scores are A = 1/61,
\* B = 1/62 + 1/61 (rank 2 in the semantic list, rank 1 in the keyword list),
\* C = 1/62 and the results are ordered [B, A, C]
C25_ScoresByRank ==
    C25_Scenario =>
        /\ ScoreIn(merged, "A") = ScoreUnit \div 61
        /\ ScoreIn(merged, "B") = (ScoreUnit \div 62) + (ScoreUnit \div 61)
        /\ ScoreIn(merged, "C") = ScoreUnit \div 62
        /\ [k \in 1..Len(results) |-> results[k].dataset_id] = <<"B", "A", "C">>

C25_Witness == C25_Scenario /\ Len(results) = 3

\* _merge_rrf called with the two lists exchanged, each keeping its weight
SwappedMerge == _merge_rrf(keyword_results, semantic_results, keyword_w, semantic_w)

IdsOf(list) == [k \in 1..Len(list) |-> list[k].dataset_id]

SameScorePerDocument ==
    /\ Range(IdsOf(SwappedMerge)) = Range(IdsOf(merged))
    /\ \A d \in Range(IdsOf(merged)) : ScoreIn(SwappedMerge, d) = ScoreIn(merged, d)

\* C26: exchanging the semantic and keyword lists together with
\* their weights gives every document the same score and the sorted results
\* the same order of documents
C26_SwapSameOrder ==
    spc = "merged" =>
        /\ SameScorePerDocument
        /\ IdsOf(SortByScore(SwappedMerge)) = IdsOf(SortByScore(merged))

\* two texts are equal ignoring case
EqualIgnoringCase(a, b) ==
    /\ Len(a) = Len(b)
    /\ \A k \in 1..Len(a) : LowerChar(a[k]) = LowerChar(b[k])

\* a text contains another, ignoring case
ContainsIgnoringCase(a, b) ==
    \E j \in 1..(Len(a) + 1) : \E n \in 0..Len(a) :
        j + n - 1 <= Len(a) /\ EqualIgnoringCase(SubSeq(a, j, j + n - 1), b)

\* C27: _boost_exact_matches adds to the merged score of each result
\* exact_match_boost (10) when its title equals the query ignoring case,
\* half of it when the title only contains the query, and three tenths of
\* it when one of its keywords equals the query; is_exact_match is set
\* exactly for an equal title, and a result matching none is unchanged
C27_BoostAmounts ==
    spc = "boosted" =>
        /\ Len(boosted) = Len(merged)
        /\ \A k \in 1..Len(merged) :
            LET r == merged[k]
                b == boosted[k]
                title_equal == EqualIgnoringCase(r.title, query)
                title_contains == ~title_equal /\ ContainsIgnoringCase(r.title, query)
                keyword_equal == \E j \in 1..Len(r.keywords) :
                                     EqualIgnoringCase(r.keywords[j], query)
                for_title == IF title_equal THEN 10 * ScoreUnit
                             ELSE IF title_contains THEN 5 * ScoreUnit ELSE 0
                for_keyword == IF keyword_equal THEN 3 * ScoreUnit ELSE 0
            IN /\ b.hybrid_score = r.hybrid_score + for_title + for_keyword
               /\ b.is_exact_match = title_equal
               /\ b = [r EXCEPT !.hybrid_score = b.hybrid_score,
                                !.is_exact_match = b.is_exact_match]

\* a boosted list of three with an equal title (A), an equal title with an
\* equal keyword (C) and a containing title (B or D)
C27_Witness ==
    /\ spc = "boosted"
    /\ Len(boosted) = 3
    /\ \A k \in 1..3 :
        boosted[k].hybrid_score - merged[k].hybrid_score =
            CASE merged[k].dataset_id = "A" -> 10 * ScoreUnit
              [] merged[k].dataset_id = "B" -> 5 * ScoreUnit
              [] merged[k].dataset_id = "C" -> 13 * ScoreUnit
              [] merged[k].dataset_id = "D" -> 5 * ScoreUnit
    /\ {merged[k].dataset_id : k \in 1..3} \in {{"A", "C", "B"}, {"A", "C", "D"}}

\* C28: a search that took the merge path returns results in non-increasing
\* order of final score, at most limit of them, each a distinct document of
\* the boosted merged set, as many as limit allows, and no document left out
\* scores higher than a returned one
C28_TopLimitByScore ==
    (spc = "returned" /\ query_type \in {"short", "normal"}) =>
        /\ \A k \in 1..(Len(results) - 1) :
               results[k].hybrid_score >= results[k + 1].hybrid_score
        /\ Len(results) <= limit
        /\ Len(results) = IF Len(boosted) < limit THEN Len(boosted) ELSE limit
        /\ Range(results) \subseteq Range(boosted)
        /\ \A j, k \in 1..Len(results) :
               results[j].dataset_id = results[k].dataset_id => j = k
        /\ \A r \in Range(boosted) \ Range(results) :
               \A k \in 1..Len(results) : r.hybrid_score <= results[k].hybrid_score

\* a returned search that had to cut a merged set whose first document is
\* not the best one
C28_Witness ==
    /\ spc = "returned"
    /\ query_type \in {"short", "normal"}
    /\ Len(boosted) = 3
    /\ limit = 2
    /\ Len(results) = 2
    /\ boosted[1].hybrid_score < boosted[3].hybrid_score

\* C29 as stated: when the reranker cannot be loaded, AdvancedSearchPipeline.search
\* returns (reranked = False) the results in the order in which the hybrid
\* search produced them
C29_FallbackKeepsHybridOrder ==
    (apc = "returned" /\ use_reranker /\ ~model_loadable) =>
        /\ ~reranked
        /\ IdsOf(adv_results) = IdsOf(hybrid_results)

\* title_weight for a title equal to the text ignoring case, half of it for
\* a title that contains it, plus keyword_weight (1.0) for an equal keyword
FieldBoost(r, text) ==
    (IF EqualIgnoringCase(r.title, text) THEN 2 * ScoreUnit
     ELSE IF ContainsIgnoringCase(r.title, text) THEN ScoreUnit ELSE 0)
    + (IF \E j \in 1..Len(r.keywords) : EqualIgnoringCase(r.keywords[j], text)
       THEN ScoreUnit ELSE 0)

\* C29 amended: when the reranker cannot be loaded, AdvancedSearchPipeline.search
\* returns with reranked = False the hybrid results in the order of the
\* field-weighted rescore: each with its hybrid score plus its field boost
\* for the expanded query, in non-increasing order of that score, results
\* of equal score in the order the hybrid search produced them
C29_FallbackKeepsRescoredOrder ==
    (apc = "returned" /\ use_reranker /\ ~model_loadable) =>
        /\ ~reranked
        /\ Len(adv_results) = Len(hybrid_results)
        /\ Range(IdsOf(adv_results)) = Range(IdsOf(hybrid_results))
        /\ \A k \in 1..Len(adv_results) :
            LET r == adv_results[k]
                h == hybrid_results[RankIn(IdsOf(hybrid_results), r.dataset_id)]
            IN r.hybrid_score = h.hybrid_score + FieldBoost(h, expanded)
        /\ \A j, k \in 1..Len(adv_results) :
            j < k =>
                \/ adv_results[j].hybrid_score > adv_results[k].hybrid_score
                \/ /\ adv_results[j].hybrid_score = adv_results[k].hybrid_score
                   /\ RankIn(IdsOf(hybrid_results), adv_results[j].dataset_id)
                          < RankIn(IdsOf(hybrid_results), adv_results[k].dataset_id)

\* the reranker could not be loaded and the rescore changed the order
C29_Witness ==
    /\ apc = "returned"
    /\ use_reranker
    /\ ~model_loadable
    /\ ~reranked
    /\ IdsOf(adv_results) # IdsOf(hybrid_results)

\* the levels the claim gives each role
AllowedFor(role) ==
    CASE role = "researcher" -> {"public", "restricted"}
      [] role = "admin" -> {"public", "restricted", "admin_only"}
      [] OTHER -> {"public"}

\* positions of the input whose level, public when the key is missing, is
\* allowed for the role
KeptPositions ==
    {k \in 1..Len(datasets) :
        (IF datasets[k].access_level = "NoKey" THEN "public"
         ELSE datasets[k].access_level) \in AllowedFor(user_role)}

\* C30: filter_datasets_by_access returns exactly the entries of its input
\* whose access level (public when missing) is allowed for the role, in
\* their original order: the j-th returned entry is the input entry at the
\* j-th kept position
C30_FilterKeepsAllowedInOrder ==
    fpc = "returned" =>
        /\ Len(visible) = Cardinality(KeptPositions)
        /\ \A j \in 1..Len(visible) :
            \E k \in KeptPositions :
                /\ Cardinality({m \in KeptPositions : m <= k}) = j
                /\ visible[j] = datasets[k]

\* a researcher's call that drops an admin_only entry between two kept ones,
\* one of them without the key
C30_Witness ==
    /\ fpc = "returned"
    /\ user_role = "researcher"
    /\ Len(datasets) = 3
    /\ datasets[1].access_level = "NoKey"
    /\ datasets[2].access_level = "admin_only"
    /\ datasets[3].access_level = "restricted"
    /\ datasets[1].identifier # datasets[3].identifier
    /\ visible = <<datasets[1], datasets[3]>>

\* C31: in every response of search_datasets, whatever the mode and the
\* query type, each returned dataset has a stored access level that is
\* allowed for the caller's role (an anonymous caller sees only public
\* datasets), and total is the number of results returned.
C31_OnlyAllowedDatasets ==
    bpc = "responded" =>
        /\ \A k \in 1..Len(response_results) :
               StoredAccess(response_results[k].identifier) \in AllowedFor(current_role)
        /\ response_total = Len(response_results)

\* C33: for any list of retrieved documents, the string build_context
\* returns is at most max_chars characters long.
C33_ContextWithinMaxChars ==
    xpc = "returned" => Len(context) <= max_chars

\* C32: in a RAG query, no document used to build the context and no
\* document listed in the sources of the answer has a stored access level
\* that is not allowed for the user's role.
C32_RagOnlyAllowedDocuments ==
    gpc = "answered" =>
        \A d \in Range(rag_context_ids) \cup Range(rag_sources) :
            RagStored[d].access_level \in AllowedFor(rag_role)

\* C34: each default instance is constructed at most once, also when its
\* accessor is first called by two threads at the same time, and all calls
\* of an accessor return the same instance.
C34_CreatedOnceSameInstance ==
    /\ \A a \in Accessors : constructed[a] <= 1
    /\ \A t, u \in Threads :
           (accessor[t] = accessor[u] /\ got[t] # 0 /\ got[u] # 0) => got[t] = got[u]

\* 2 to the power n
RECURSIVE TwoTo(_)
TwoTo(n) == IF n = 0 THEN 1 ELSE 2 * TwoTo(n - 1)

\* C35: an HTTP fetch makes at most max_retries requests; when none of them
\* ended the fetch earlier it returns a failure; and the request that
\* follows failed attempt number a (counted from 0) is made only after a
\* wait of retry_delay * 2^a.
C35_BoundedRetriesWithBackoff ==
    /\ Len(outcomes) <= max_retries
    /\ (hpc = "done" /\ \A k \in 1..Len(outcomes) : ShouldRetry(outcomes[k]))
           => ~hres.success
    /\ Len(delays) = (IF hpc = "request" THEN Len(outcomes)
                      ELSE IF Len(outcomes) = 0 THEN 0 ELSE Len(outcomes) - 1)
    /\ \A a \in 0..(Len(delays) - 1) : delays[a + 1] = retry_delay * TwoTo(a)

C35_Witness ==
    /\ hpc = "done"
    /\ max_retries = 3
    /\ retry_delay = 3
    /\ Len(outcomes) = 3
    /\ ~hres.success
    /\ delays = <<3, 6>>

\* datasets whose parse succeeded in the current run
ParsedIds == {id \in IDs : obj[id].stage_completed \in {PARSE, STORE}}

\* positions <<call, index>> of a dataset in the save_many calls of the run
PassedAt(id) ==
    {p \in UNION {{<<c, k>> : k \in 1..Len(saveCalls[c])} : c \in 1..Len(saveCalls)} :
        saveCalls[p[1]][p[2]] = id}

\* C36: in a run that returns, every save_many call but the last receives
\* exactly batch_size datasets (the batch was committed when it reached
\* batch_size), the last one receives between 1 and batch_size (a full or a
\* non-empty residual batch), every successfully parsed dataset is passed to
\* save_many exactly once and nothing else is passed.
C36_BatchesOfBatchSize ==
    RunReturned =>
        /\ \A c \in 1..Len(saveCalls) :
               /\ 1 <= Len(saveCalls[c])
               /\ Len(saveCalls[c]) <= batch_size
               /\ c < Len(saveCalls) => Len(saveCalls[c]) = batch_size
        /\ \A id \in IDs :
               Cardinality(PassedAt(id)) = (IF id \in ParsedIds THEN 1 ELSE 0)

C36_Witness ==
    /\ RunReturned
    /\ batch_size = 2
    /\ Cardinality(ParsedIds) = 3
    /\ Len(saveCalls) = 2
    /\ Len(saveCalls[1]) = 2
    /\ Len(saveCalls[2]) = 1

\* how often an id occurs in a list
Occurrences(list, id) == Cardinality({k \in 1..Len(list) : list[k] = id})

\* C37: with stop_on_error unset, when a run over distinct ids returns,
\* every id it was given occurs exactly once in result.successful and
\* result.failed taken together, so the two lists are disjoint and total is
\* the number of ids.
C37_EveryIdInExactlyOneList ==
    (RunReturned /\ ~stop_on_error) =>
        /\ \A id \in Range(dataset_ids) :
               Occurrences(successful, id) + Occurrences(failed, id) = 1
        /\ total = Len(dataset_ids)

InFlightOnClient ==
    {t \in Operations \X (1..MaxTasks) : otask[t[1]][t[2]] = "fetching"}

\* C39: when two fetch_all or streaming operations run at the same time on
\* one client, the number of dataset fetches in flight for that client
\* never exceeds concurrency.
C39_PerClientLimit == Cardinality(InFlightOnClient) <= concurrency

\* a call of the one caller has returned a result served from the cache
ServedFromCache == cpc[1] = "idle" /\ op[1] = "fetch" /\ res[1].success /\ res[1].from_cache

\* the caller is inside _write_cache after a successful fetch of the wrapped
\* resource
WritingFetched ==
    /\ cpc[1] \in {"open_content", "write_content", "open_meta", "write_meta"}
    /\ res[1].success
    /\ ~res[1].from_cache

\* C40: in any sequence of fetch, fetch_fresh and invalidate calls, a result
\* returned with from_cache = true carries the content of the most recent
\* successful fetch of the wrapped resource; the cache files change only in
\* invalidate or in the write that follows a successful fetch of the wrapped
\* resource, so a failed one creates, changes and removes nothing.
C40_HitIsLatestFetched ==
    /\ [](ServedFromCache => res[1].body = lastFetched /\ lastFetched # 0)
    /\ [][(contentFile' # contentFile \/ metaFile' # metaFile)
            => (op'[1] = "invalidate" \/ WritingFetched)]_vars
    /\ [][(cpc[1] = "delegate" /\ ~res'[1].success)
            => (contentFile' = contentFile /\ metaFile' = metaFile)]_vars

\* a fetch is served from the cache with the body of the last successful
\* fetch of the wrapped resource while the source now serves another body
C40_Witness ==
    /\ ServedFromCache
    /\ res[1].body = lastFetched
    /\ srcBody # lastFetched
    /\ contentFile.state = "complete"
    /\ metaFile.state = "complete"

====
